---- MODULE Spec2Model ----
(***************************************************************************)
(* Deterministic scoring engine of the video audit pipeline                *)
(* (phase_2/batch_audit_processor.py) and of the human review form         *)
(* (phase_2/human_eval_app.py), and the pipeline that runs the three       *)
(* stages of every unit execution under one semaphore, as a batch          *)
(* (process_all_tasks) or as the jobs of the server (phase_2/server.py).   *)
(*                                                                         *)
(* Scores and penalties are exact decimals counted in thousandths          *)
(* (5.0 is 5000).  Every penalty of the code is a multiple of 0.1, so the  *)
(* binary floating point error of a running total stays far below the     *)
(* 0.005 that round(x, 2) absorbs, and the rounded results are the exact   *)
(* decimals computed here.                                                 *)
(*                                                                         *)
(* Python dictionaries are functions whose DOMAIN is the set of keys that  *)
(* are present.  Python scalars are records [t, n, s]: t is the type       *)
(* ("int", "bool", "float", "str", "none"), n the number (a float in       *)
(* thousandths), s the characters of a string.                             *)
(***************************************************************************)
EXTENDS Integers, Sequences, FiniteSets, TLC

VARIABLES
    kind,      \* "objective": a Stage B (judge) response; "subjective": a Stage C response
    result,    \* the response dictionary the scorer reads and writes
    edits,     \* how many flags of the response were set or dropped so far
    pc,        \* "response" -> "scored" -> "rescored" | "reviewed"
    form,      \* the human review form's flag dictionary (obj_flags / subj_flags)
    metrics,   \* the scores the review form displays
    mode,      \* "scoring": no pipeline runs; "batch": process_all_tasks; "server": server.py
    units,     \* per unit execution: the position and the locals of process_single_task
    sem,       \* the permits self.semaphore has left
    waiters,   \* the executions suspended in self.semaphore, first come first
    results,   \* what asyncio.gather returned to process_all_tasks; <<>> before it returns
    jobs,      \* the server's job store: per execution the status of its job
    run,       \* one call of process_all_tasks: its executions, results and written files
    media,     \* one stage call's dealings with the model's file store
    downloads  \* prepare_tasks: the downloads it started and the local video files

\* the variables of the pipeline
pvars == <<mode, units, sem, waiters, results, jobs>>

\* the variables of a batch run's bookkeeping, of a stage call and of the downloads
rvars == <<run, media, downloads>>

vars ==
    <<kind, result, edits, pc, form, metrics, mode, units, sem, waiters, results, jobs,
      run, media, downloads>>

----------------------------------------------------------------------------
(* Bounds of the model.                                                    *)

\* flags set or dropped in one response, starting from the empty or the all-severe one
MaxEdits == 2
\* the top of the severity scale 0..3 that the judge, the simulation and the form report
MaxLevel == 3
\* largest error count a response reports
MaxCount == 3
\* unit executions launched: tasks x runs of a batch, or jobs submitted to the server
NumExecs == 2
\* max_concurrent, the permits of the processor's semaphore
MaxConcurrent == 1
\* max_retries of run_agent3_sync
max_retries == 2
\* tasks handed to process_all_tasks
NumTasks == 2
\* largest num_runs a batch is started with
NumRuns == 2
\* URL strings an input configuration draws from
NumUrls == 2
\* entries of an input configuration
NumConfigs == 2

----------------------------------------------------------------------------
(* Python values.                                                          *)

PyInt(i) == [t |-> "int", n |-> i, s |-> <<>>]
PyBool(b) == [t |-> "bool", n |-> IF b THEN 1 ELSE 0, s |-> <<>>]
PyFloat(x) == [t |-> "float", n |-> x, s |-> <<>>]
PyStr(chars) == [t |-> "str", n |-> 0, s |-> chars]
PyNone == [t |-> "none", n |-> 0, s |-> <<>>]

\* isinstance(v, dict): a scalar is a record of exactly t, n and s
IsDict(v) == DOMAIN v # {"t", "n", "s"}

EmptyDict == [k \in {} |-> 0]

Get(d, k, default) == IF k \in DOMAIN d THEN d[k] ELSE default

Put(d, k, v) == [x \in (DOMAIN d) \cup {k} |-> IF x = k THEN v ELSE d[x]]

Del(d, k) == [x \in (DOMAIN d) \ {k} |-> d[x]]

Min(a, b) == IF a <= b THEN a ELSE b

Max(a, b) == IF a >= b THEN a ELSE b

\* round(x, 2) of a non-negative decimal in thousandths
Round2(x) == ((x + 5) \div 10) * 10

\* isinstance(v, int): bool is a subclass of int
IsInstanceInt(v) == v.t \in {"int", "bool"}

\* isinstance(v, (int, float))
IsInstanceNumber(v) == v.t \in {"int", "bool", "float"}

IsDigit(c) == c \in {"0", "1", "2", "3", "4", "5", "6", "7", "8", "9"}

DigitOf(c) == CHOOSE i \in 0..9 : <<"0", "1", "2", "3", "4", "5", "6", "7", "8", "9">>[i + 1] = c

\* int(v) raises for None and for a string that is not a number
IntRaises(v) ==
    \/ v.t = "none"
    \/ v.t = "str" /\ (v.s = <<>> \/ \E i \in 1..Len(v.s) : ~IsDigit(v.s[i]))

RECURSIVE DigitsValue(_)
DigitsValue(chars) ==
    IF chars = <<>> THEN 0
    ELSE 10 * DigitsValue(SubSeq(chars, 1, Len(chars) - 1)) + DigitOf(chars[Len(chars)])

\* int(v) where it does not raise; a float is truncated toward zero
IntOf(v) ==
    CASE v.t = "float" -> IF v.n >= 0 THEN v.n \div 1000 ELSE -((-v.n) \div 1000)
      [] v.t = "str" -> DigitsValue(v.s)
      [] OTHER -> v.n

\* bool(v): the truth value `x or y` tests
Truthy(v) ==
    CASE v.t = "str" -> v.s # <<>>
      [] v.t = "none" -> FALSE
      [] OTHER -> v.n # 0

----------------------------------------------------------------------------
(* Strings: lower() and the substring test `a in b`.                       *)

UpperChars == <<"A", "B", "C", "D", "E", "F", "G", "H", "I", "J", "K", "L", "M",
                "N", "O", "P", "Q", "R", "S", "T", "U", "V", "W", "X", "Y", "Z">>

LowerChars == <<"a", "b", "c", "d", "e", "f", "g", "h", "i", "j", "k", "l", "m",
                "n", "o", "p", "q", "r", "s", "t", "u", "v", "w", "x", "y", "z">>

\* the lower-case letter of each upper-case letter
UpperToLower ==
    [c \in {UpperChars[j] : j \in 1..26} |-> LowerChars[CHOOSE j \in 1..26 : UpperChars[j] = c]]

LowerChar(c) == IF c \in DOMAIN UpperToLower THEN UpperToLower[c] ELSE c

StrLower(chars) == [i \in 1..Len(chars) |-> LowerChar(chars[i])]

StrContains(sub, chars) ==
    \E i \in 1..(Len(chars) - Len(sub) + 1) : \A j \in 1..Len(sub) : chars[i + j - 1] = sub[j]

RECURSIVE DigitsOf(_)
DigitsOf(i) ==
    IF i < 10 THEN <<(<<"0", "1", "2", "3", "4", "5", "6", "7", "8", "9">>)[i + 1]>>
    ELSE DigitsOf(i \div 10) \o DigitsOf(i % 10)

\* str(v)
StrOf(v) ==
    CASE v.t = "str" -> v.s
      [] v.t = "none" -> <<"N", "o", "n", "e">>
      [] v.t = "bool" -> IF v.n = 1 THEN <<"T", "r", "u", "e">> ELSE <<"F", "a", "l", "s", "e">>
      [] OTHER -> IF v.n >= 0 THEN DigitsOf(v.n) ELSE <<"-">> \o DigitsOf(-v.n)

----------------------------------------------------------------------------
(* Objective scoring: AsyncConcurrentProcessor._calculate_agent2_scores.   *)

Zero == PyInt(0)

\* fault variant of sev_penalty: the level is not clamped, the list index wraps around
sev_penalty_wrapping(level, p1, p2, p3) ==
    LET idx == IF IsInstanceNumber(level) THEN IntOf(level) ELSE 0
    IN  <<0, p1, p2, p3>>[(idx % 4) + 1]

\* sev_penalty: [0, p1, p2, p3][min(level, 3)]; a negative index counts from the end
sev_penalty(level, p1, p2, p3) ==
    LET idx == IF IsInstanceNumber(level) THEN IntOf(level) ELSE 0
        m == Min(idx, 3)
        list == <<0, p1, p2, p3>>
    IN  IF m >= 0 THEN list[m + 1] ELSE list[m + 5]

\* the list index of sev_penalty is out of range (IndexError)
sev_penalty_raises(level) ==
    IsInstanceNumber(level) /\ Min(IntOf(level), 3) < -4

ped(r) == Get(r, "pedagogical_depth", EmptyDict)
comp(r) == Get(r, "completeness", EmptyDict)
acc(r) == Get(r, "accuracy_flags", EmptyDict)
log(r) == Get(r, "logic_flags", EmptyDict)

\* fault variant of brevity: a missing brevity level is read as level 1
brevity_default_one(r) == IntOf(Get(comp(r), "content_brevity_level", PyInt(1)))

\* brevity = int(comp.get("content_brevity_level", 0))
brevity(r) == IntOf(Get(comp(r), "content_brevity_level", Zero))

\* fault variant of fd: the preset's first two penalties given in the wrong order
fd_misordered(r) == sev_penalty(Get(ped(r), "formula_dumping_level", Zero), 1500, 500, 2000)

fd(r) == sev_penalty(Get(ped(r), "formula_dumping_level", Zero), 500, 1500, 2000)
pc_pen(r) == sev_penalty(Get(ped(r), "pure_calculation_bias_level", Zero), 300, 1000, 1500)
dg(r) == sev_penalty(Get(ped(r), "pedagogical_depth_gap_level", Zero), 300, 1000, 1500)
cb(r) == sev_penalty(PyInt(brevity(r)), 500, 1500, 3000)
sc(r) == sev_penalty(Get(comp(r), "superficial_coverage_level", Zero), 500, 1500, 2000)
mc(r) == sev_penalty(Get(comp(r), "missing_core_concepts_level", Zero), 300, 1000, 1500)
bw(r) == sev_penalty(Get(comp(r), "breadth_without_depth_level", Zero), 200, 500, 1000)
tm(r) == sev_penalty(Get(acc(r), "title_content_mismatch_level", Zero), 500, 1500, 2000)
va(r) == sev_penalty(Get(acc(r), "visual_alignment_issue_level", Zero), 0, 500, 1000)

Step(name, pen) == [name |-> name, pen |-> pen]

\* `if pen:` keeps the steps whose penalty is not zero
Charged(steps) == SelectSeq(steps, LAMBDA st : st.pen # 0)

\* the total of the steps from the i-th on
RECURSIVE SumFrom(_, _)
SumFrom(steps, i) == IF i > Len(steps) THEN 0 ELSE steps[i].pen + SumFrom(steps, i + 1)

SumPen(steps) == SumFrom(steps, 1)

\* the deductions shared by accuracy and logic, in the order they are charged
SharedSteps(r) ==
    <<Step("Formula Dumping", fd(r)), Step("Pure Calc Bias", pc_pen(r)), Step("Depth Gap", dg(r)),
      Step("Content Brevity", cb(r)), Step("Superficial Coverage", sc(r)),
      Step("Missing Core Concepts", mc(r)), Step("Breadth Without Depth", bw(r))>>

\* fault variant of AccuracyDeductions: a minor slip is charged like a critical error
AccuracyDeductions_slips_as_errors(r, shared) ==
    LET a == acc(r)
    IN  Charged(shared
                \o <<Step("Title-Content Mismatch", tm(r)), Step("Visual Alignment Issue", va(r)),
                     Step("Critical Errors", IntOf(Get(a, "critical_fact_error_count", Zero)) * 500),
                     Step("Minor Slips", IntOf(Get(a, "minor_slip_count", Zero)) * 500)>>)

\* the deductions of accuracy, in the order the code charges them
AccuracyDeductions(r, shared) ==
    LET a == acc(r)
    IN  Charged(shared
                \o <<Step("Title-Content Mismatch", tm(r)), Step("Visual Alignment Issue", va(r)),
                     Step("Critical Errors", IntOf(Get(a, "critical_fact_error_count", Zero)) * 500),
                     Step("Minor Slips", IntOf(Get(a, "minor_slip_count", Zero)) * 200)>>)

\* fault variant of score_cap: the 3.5 ceiling starts above level 2 instead of at it
score_cap_above_two(r) ==
    LET c1 == IF IntOf(Get(ped(r), "pure_calculation_bias_level", Zero)) > 2
              THEN Min(5000, 3500) ELSE 5000
    IN  IF brevity(r) = 3 THEN Min(c1, 2000) ELSE c1

\* score_cap: 5.0, lowered to 3.5 by pure calc bias >= 2 and to 2.0 by brevity == 3
score_cap(r) ==
    LET c1 == IF IntOf(Get(ped(r), "pure_calculation_bias_level", Zero)) >= 2
              THEN Min(5000, 3500) ELSE 5000
    IN  IF brevity(r) = 3 THEN Min(c1, 2000) ELSE c1

\* round(min(score_cap, max(1.0, accuracy)), 2), accuracy being 5.0 less the deductions
accuracy_score(cap, steps) == Round2(Min(cap, Max(1000, 5000 - SumPen(steps))))

\* flow = str(log.get("logic_flow_assessment", content_overview.get("logic_flow", ""))).lower()
flow(r) ==
    StrLower(StrOf(Get(log(r), "logic_flow_assessment",
                       Get(Get(r, "content_overview", EmptyDict), "logic_flow", PyStr(<<>>)))))

formula_to_solving == <<"f", "o", "r", "m", "u", "l", "a", "_", "t", "o", "_", "s", "o", "l", "v", "i", "n", "g">>

formula_dash_to_solving == <<"f", "o", "r", "m", "u", "l", "a", "-", "t", "o", "-", "s", "o", "l", "v", "i", "n", "g">>

\* "formula_to_solving" in flow or "formula-to-solving" in flow
FlowCapped(r) ==
    LET fl == flow(r)
    IN  StrContains(formula_to_solving, fl) \/ StrContains(formula_dash_to_solving, fl)

\* fault variant of logic_cap: the flow ceiling is left out
logic_cap_without_flow(r, flow_capped) ==
    LET c1 == IF IntOf(Get(ped(r), "pure_calculation_bias_level", Zero)) >= 2
              THEN Min(5000, 3500) ELSE 5000
    IN  IF brevity(r) = 3 THEN Min(c1, 2000) ELSE c1

\* logic_cap: 3.0 for a formula-to-solving flow, then the caps accuracy has
logic_cap(r, flow_capped) ==
    LET c0 == IF flow_capped THEN 3000 ELSE 5000
        c1 == IF IntOf(Get(ped(r), "pure_calculation_bias_level", Zero)) >= 2
              THEN Min(c0, 3500) ELSE c0
    IN  IF brevity(r) = 3 THEN Min(c1, 2000) ELSE c1

\* the deductions of logic, in the order the code charges them
LogicDeductions(r, shared) ==
    LET l == log(r)
    IN  Charged(shared
                \o <<Step("Logic Leaps", IntOf(Get(l, "logic_leap_count", Zero)) * 500),
                     Step("Prereq Violations", IntOf(Get(l, "prerequisite_violation_count", Zero)) * 500),
                     Step("Causal Inconsistency", IntOf(Get(l, "causal_inconsistency_count", Zero)) * 400),
                     Step("Info Overload", IntOf(Get(l, "information_overload_count", Zero)) * 200)>>)

\* round(min(logic_cap, max(1.0, logic)), 2), logic being 5.0 less the deductions
logic_score(cap, steps) == Round2(Min(cap, Max(1000, 5000 - SumPen(steps))))

\* some statement of the try block raises
Agent2Raises(r) ==
    LET p == ped(r)
        c == comp(r)
        a == acc(r)
        l == log(r)
    IN  \/ sev_penalty_raises(Get(p, "formula_dumping_level", Zero))
        \/ sev_penalty_raises(Get(p, "pure_calculation_bias_level", Zero))
        \/ sev_penalty_raises(Get(p, "pedagogical_depth_gap_level", Zero))
        \/ IntRaises(Get(p, "pure_calculation_bias_level", Zero))
        \/ IntRaises(Get(c, "content_brevity_level", Zero))
        \/ sev_penalty_raises(PyInt(brevity(r)))
        \/ sev_penalty_raises(Get(c, "superficial_coverage_level", Zero))
        \/ sev_penalty_raises(Get(c, "missing_core_concepts_level", Zero))
        \/ sev_penalty_raises(Get(c, "breadth_without_depth_level", Zero))
        \/ sev_penalty_raises(Get(a, "title_content_mismatch_level", Zero))
        \/ sev_penalty_raises(Get(a, "visual_alignment_issue_level", Zero))
        \/ IntRaises(Get(a, "critical_fact_error_count", Zero))
        \/ IntRaises(Get(a, "minor_slip_count", Zero))
        \/ IntRaises(Get(l, "logic_leap_count", Zero))
        \/ IntRaises(Get(l, "prerequisite_violation_count", Zero))
        \/ IntRaises(Get(l, "causal_inconsistency_count", Zero))
        \/ IntRaises(Get(l, "information_overload_count", Zero))

\* dict.setdefault
SetDefault(d, k, v) == IF k \in DOMAIN d THEN d ELSE Put(d, k, v)

\* fault variant of WithObjectiveScores: a score the response already holds is kept
WithObjectiveScores_setdefault(r, accuracy, logic, breakdown) ==
    Put(SetDefault(SetDefault(r, "accuracy_score", PyFloat(accuracy)), "logic_score", PyFloat(logic)),
        "score_breakdown", breakdown)

\* result["accuracy_score"], result["logic_score"] and result["score_breakdown"] are assigned
WithObjectiveScores(r, accuracy, logic, breakdown) ==
    [x \in DOMAIN r \cup {"accuracy_score", "logic_score", "score_breakdown"} |->
        IF x = "accuracy_score" THEN PyFloat(accuracy)
        ELSE IF x = "logic_score" THEN PyFloat(logic)
        ELSE IF x = "score_breakdown" THEN breakdown
        ELSE r[x]]

\* the dictionary _calculate_agent2_scores returns (it is `result`, updated in place)
calculate_agent2_scores(r) ==
    IF Agent2Raises(r)
    THEN SetDefault(SetDefault(r, "accuracy_score", PyFloat(3000)), "logic_score", PyFloat(3000))
    ELSE LET shared == SharedSteps(r)
             accuracy_steps == AccuracyDeductions(r, shared)
             logic_steps == LogicDeductions(r, shared)
             flow_capped == FlowCapped(r)
             accuracy == accuracy_score(score_cap(r), accuracy_steps)
             logic == logic_score(logic_cap(r, flow_capped), logic_steps)
         IN  WithObjectiveScores(r, accuracy, logic,
                 [accuracy_steps |-> <<Step("Base", 5000)>> \o accuracy_steps \o <<Step("=", accuracy)>>,
                  logic_steps |-> <<Step("Base", 5000)>>
                                  \o (IF flow_capped
                                      THEN <<Step("Flow Cap (formula_to_solving)", 3000)>> ELSE <<>>)
                                  \o logic_steps \o <<Step("=", logic)>>])

----------------------------------------------------------------------------
(* Subjective scoring:                                                     *)
(* AsyncConcurrentProcessor._calculate_deterministic_scores.               *)

\* a boolean severity counts as level 2
BoolAsLevel(severity) == IF severity.t = "bool" THEN PyInt(IF severity.n = 1 THEN 2 ELSE 0) ELSE severity

\* fault variant of calculate_penalty: level 3 and above are charged 1.5
calculate_penalty_steep(severity) ==
    LET sv == BoolAsLevel(severity)
    IN  IF IsInstanceInt(sv) /\ sv.n > 0
        THEN (IF sv.n = 1 THEN 300 ELSE IF sv.n = 2 THEN 600 ELSE 1500)
        ELSE 0

calculate_penalty(severity) ==
    LET sv == BoolAsLevel(severity)
    IN  IF IsInstanceInt(sv) /\ sv.n > 0
        THEN (IF sv.n = 1 THEN 300 ELSE IF sv.n = 2 THEN 600 ELSE 1000)
        ELSE 0

\* fault variant of calculate_penalty_monotone: the standard penalties are returned
calculate_penalty_monotone_standard(severity) ==
    LET sv == BoolAsLevel(severity)
    IN  IF IsInstanceInt(sv) /\ sv.n > 0
        THEN (IF sv.n = 1 THEN 300 ELSE IF sv.n = 2 THEN 600 ELSE 1000)
        ELSE 0

calculate_penalty_monotone(severity) ==
    LET sv == BoolAsLevel(severity)
    IN  IF IsInstanceInt(sv) /\ sv.n > 0
        THEN (IF sv.n = 1 THEN 500 ELSE IF sv.n = 2 THEN 1000 ELSE 1500)
        ELSE 0

\* fault variant of calculate_penalty_disconnect: the standard penalties are returned
calculate_penalty_disconnect_standard(severity) ==
    LET sv == BoolAsLevel(severity)
    IN  IF IsInstanceInt(sv) /\ sv.n > 0
        THEN (IF sv.n = 1 THEN 300 ELSE IF sv.n = 2 THEN 600 ELSE 1000)
        ELSE 0

calculate_penalty_disconnect(severity) ==
    LET sv == BoolAsLevel(severity)
    IN  IF IsInstanceInt(sv) /\ sv.n > 0
        THEN (IF sv.n = 1 THEN 500 ELSE IF sv.n = 2 THEN 1000 ELSE 1500)
        ELSE 0

audit_log(r) == Get(r, "audit_log", EmptyDict)

adaptability_flags(r) == Get(audit_log(r), "adaptability_flags", EmptyDict)

\* an engagement flag reported one level too high, beside engagement_flags
FatigueLeaked(r) ==
    /\ "ai_generated_fatigue" \in DOMAIN audit_log(r)
    /\ "ai_generated_fatigue" \notin DOMAIN Get(audit_log(r), "engagement_flags", EmptyDict)

\* engagement_flags after the leaked flag was copied into it
engagement_flags(r) ==
    LET ef == Get(audit_log(r), "engagement_flags", EmptyDict)
    IN  IF FatigueLeaked(r)
        THEN Put(Put(ef, "ai_generated_fatigue", Get(audit_log(r), "ai_generated_fatigue", PyBool(FALSE))),
                 "ai_fatigue_evidence", Get(audit_log(r), "ai_fatigue_evidence", PyStr(<<>>)))
        ELSE ef

\* the copy is made in place when the response holds an engagement_flags dictionary
AfterLeakCopy(r) ==
    IF FatigueLeaked(r) /\ "engagement_flags" \in DOMAIN audit_log(r)
    THEN Put(r, "audit_log", Put(audit_log(r), "engagement_flags", engagement_flags(r)))
    ELSE r

\* flags.get(level_key, flags.get(legacy_key, 0))
Severity(flags, level_key, legacy_key) == Get(flags, level_key, Get(flags, legacy_key, Zero))

signaling == <<"s", "i", "g", "n", "a", "l", "i", "n", "g">>

contrast == <<"c", "o", "n", "t", "r", "a", "s", "t">>

\* visual_issue_count: a boolean counts as 1 or 0, a string as 0
visual_issue_count(r) ==
    LET v == Severity(adaptability_flags(r), "visual_accessibility_level", "visual_accessibility_issue")
    IN  CASE v.t = "bool" -> PyInt(v.n)
          [] v.t = "str" -> Zero
          [] OTHER -> v

\* the visual accessibility step: [name, pen], pen = 0 when nothing is charged
VisualStep(r) ==
    LET v == visual_issue_count(r)
        af == adaptability_flags(r)
    IN  IF IsInstanceInt(v) /\ v.n > 0
        THEN LET base == IF v.n = 1 THEN 300 ELSE IF v.n = 2 THEN 600 ELSE 1000
                 issue_type == Get(af, "accessibility_issue_type", PyStr(contrast))
             IN  Step("Visual Accessibility Issue",
                      IF StrContains(signaling, StrLower(StrOf(issue_type)))
                      THEN Min(1000, base + 500) ELSE base)
        ELSE IF StrLower(Get(af, "accessibility_issue_type", PyStr(<<>>)).s) = signaling
             THEN Step("Low Signaling Cues", 500)
             ELSE Step("Low Signaling Cues", 0)

\* some statement of the try block raises: .lower() of an issue type that is not a
\* string (AttributeError), or an item assignment on a subjective_scores that is not a
\* dictionary (TypeError)
SubjectiveRaises(r) ==
    \/ /\ ~(IsInstanceInt(visual_issue_count(r)) /\ visual_issue_count(r).n > 0)
       /\ Get(adaptability_flags(r), "accessibility_issue_type", PyStr(<<>>)).t # "str"
    \/ ~IsDict(Get(r, "subjective_scores", EmptyDict))

AdaptabilityDeductions(r) ==
    LET af == adaptability_flags(r)
    IN  SelectSeq(
          <<Step("Jargon Overload", calculate_penalty(Severity(af, "jargon_overload_level", "jargon_overload"))),
            Step("Prerequisite Gap", calculate_penalty(Severity(af, "prerequisite_gap_level", "prerequisite_gap"))),
            Step("Pacing Mismatch", calculate_penalty(Severity(af, "pacing_mismatch_level", "pacing_mismatch"))),
            Step("Missing Scaffolding",
                 calculate_penalty(Severity(af, "missing_scaffolding_level", "missing_scaffolding"))),
            VisualStep(r)>>,
          LAMBDA st : st.pen > 0)

\* fault variant of adaptability_score: the deductions are added and the result is not clamped
adaptability_score_unclamped(steps) == 5000 + SumPen(steps)

\* adaptability_score = max(0.0, min(5.0, 5.0 - deductions))
adaptability_score(steps) == Max(0, Min(5000, 5000 - SumPen(steps)))

EngagementDeductions(r) ==
    LET ef == engagement_flags(r)
    IN  SelectSeq(
          <<Step("Monotone Audio", calculate_penalty_monotone(Severity(ef, "monotone_audio_level", "monotone_audio"))),
            Step("AI Generated Fatigue",
                 calculate_penalty(Severity(ef, "ai_generated_fatigue_level", "ai_generated_fatigue"))),
            Step("Visual Clutter", calculate_penalty(Severity(ef, "visual_clutter_level", "visual_clutter"))),
            Step("Visual/Audio Disconnect", calculate_penalty_disconnect(Severity(ef, "disconnect_level", "disconnect")))>>,
          LAMBDA st : st.pen > 0)

\* engagement_score = max(0.0, min(5.0, 5.0 - deductions))
engagement_score(steps) == Max(0, Min(5000, 5000 - SumPen(steps)))

\* result["subjective_scores"][...] = {"score": round(score, 2), "calculation": ...}
WithSubjectiveScores(r, src) ==
    LET adaptability_steps == AdaptabilityDeductions(src)
        engagement_steps == EngagementDeductions(src)
        adaptability == adaptability_score(adaptability_steps)
        engagement == engagement_score(engagement_steps)
    IN  Put(r, "subjective_scores",
            Put(Put(Get(r, "subjective_scores", EmptyDict),
                    "adaptability",
                    [score |-> PyFloat(Round2(adaptability)),
                     calculation |-> <<Step("Base", 5000)>> \o adaptability_steps
                                     \o <<Step("=", adaptability)>>]),
                "engagement",
                [score |-> PyFloat(Round2(engagement)),
                 calculation |-> <<Step("Base", 5000)>> \o engagement_steps
                                 \o <<Step("=", engagement)>>]))

\* fault variant of MoveMisplaced: the leaked flag is removed without being stored
\* in engagement_flags
MoveMisplaced_lossy(r) ==
    IF FatigueLeaked(r)
    THEN Put(r, "audit_log", Del(Del(audit_log(r), "ai_generated_fatigue"), "ai_fatigue_evidence"))
    ELSE r

\* the closing repair: a leaked flag still missing from result's engagement_flags is
\* moved there and removed from audit_log
MoveMisplaced(r) ==
    IF FatigueLeaked(r)
    THEN LET al == audit_log(r)
             moved == Put(Put(Get(al, "engagement_flags", EmptyDict),
                              "ai_generated_fatigue", Get(al, "ai_generated_fatigue", PyBool(FALSE))),
                          "ai_fatigue_evidence", Get(al, "ai_fatigue_evidence", PyStr(<<>>)))
         IN  Put(r, "audit_log",
                 Del(Del(Put(al, "engagement_flags", moved), "ai_generated_fatigue"), "ai_fatigue_evidence"))
    ELSE r

\* the dictionary _calculate_deterministic_scores returns (it is `result`, updated in place)
calculate_deterministic_scores(r) ==
    IF ~IsDict(r) THEN r
    ELSE IF SubjectiveRaises(r) THEN AfterLeakCopy(r)
    ELSE MoveMisplaced(WithSubjectiveScores(AfterLeakCopy(r), r))

----------------------------------------------------------------------------
(* The zero-score validity check:                                          *)
(* AsyncConcurrentProcessor._check_agent3_scores_valid.                    *)

\* x == 0 in Python: a number (or a boolean) whose value is zero
EqualsZero(v) == ~IsDict(v) /\ IsInstanceNumber(v) /\ v.n = 0

\* adaptability.get("score", adaptability) if isinstance(adaptability, dict) else adaptability
ScoreOf(entry) == IF IsDict(entry) THEN Get(entry, "score", entry) ELSE entry

\* subj_scores.get(...) of a subjective_scores that is not a dictionary (AttributeError)
CheckRaises(r) == IF IsDict(r) THEN ~IsDict(Get(r, "subjective_scores", EmptyDict)) ELSE TRUE

\* fault variant of check_agent3_scores_valid: one zero score is enough to be invalid
check_agent3_scores_valid_either(r) ==
    IF CheckRaises(r) THEN TRUE
    ELSE LET subj_scores == Get(r, "subjective_scores", EmptyDict)
             adapt_score == ScoreOf(Get(subj_scores, "adaptability", EmptyDict))
             engage_score == ScoreOf(Get(subj_scores, "engagement", EmptyDict))
         IN  IF EqualsZero(adapt_score) \/ EqualsZero(engage_score) THEN FALSE ELSE TRUE

\* _check_agent3_scores_valid(result)
check_agent3_scores_valid(r) ==
    IF CheckRaises(r) THEN TRUE
    ELSE LET subj_scores == Get(r, "subjective_scores", EmptyDict)
             adapt_score == ScoreOf(Get(subj_scores, "adaptability", EmptyDict))
             engage_score == ScoreOf(Get(subj_scores, "engagement", EmptyDict))
         IN  IF EqualsZero(adapt_score) /\ EqualsZero(engage_score) THEN FALSE ELSE TRUE

----------------------------------------------------------------------------
(* The human review form's scoring functions (human_eval_app.py).          *)

\* _sev_penalty(level, p1, p2, p3) of the review form
human_sev_penalty(level, p1, p2, p3) ==
    LET idx == IF IsInstanceNumber(level) THEN IntOf(level) ELSE 0
        m == Min(idx, 3)
        list == <<0, p1, p2, p3>>
    IN  IF m >= 0 THEN list[m + 1] ELSE list[m + 5]

\* calculate_accuracy(flags)[0]
calculate_accuracy(flags) ==
    LET fd_ == human_sev_penalty(Get(flags, "formula_dumping", Zero), 500, 1500, 2000)
        pc_ == human_sev_penalty(Get(flags, "pure_calc_bias", Zero), 300, 1000, 1500)
        dg_ == human_sev_penalty(Get(flags, "pedagogical_depth_gap", Zero), 300, 1000, 1500)
        cap1 == IF IntOf(Get(flags, "pure_calc_bias", Zero)) >= 2 THEN Min(5000, 3500) ELSE 5000
        brevity_ == IntOf(Get(flags, "brevity", Zero))
        cap2 == IF brevity_ = 3 THEN Min(cap1, 2000) ELSE cap1
        cb_ == human_sev_penalty(PyInt(brevity_), 500, 1500, 3000)
        sc_ == human_sev_penalty(Get(flags, "superficial", Zero), 500, 1500, 2000)
        mc_ == human_sev_penalty(Get(flags, "missing_core_concepts", Zero), 300, 1000, 1500)
        bw_ == human_sev_penalty(Get(flags, "breadth_without_depth", Zero), 200, 500, 1000)
        tm_ == human_sev_penalty(Get(flags, "title_mismatch", Zero), 500, 2000, 4000)
        va_ == human_sev_penalty(Get(flags, "visual_alignment", Zero), 0, 500, 1000)
        crit_errors == IntOf(Get(flags, "critical_errors", Zero))
        minor_slips == IntOf(Get(flags, "minor_slips", Zero))
        accuracy == 5000 - (fd_ + pc_ + dg_) - (cb_ + sc_ + mc_ + bw_) - (tm_ + va_)
                    - (crit_errors * 500 + minor_slips * 200)
    IN  Round2(Min(cap2, Max(1000, accuracy)))

formula_first == <<"f", "o", "r", "m", "u", "l", "a", " ", "f", "i", "r", "s", "t">>

formula_dump == <<"f", "o", "r", "m", "u", "l", "a", "_", "d", "u", "m", "p">>

\* flow = str(flags.get('logic_flow', '') or '').lower()
human_flow(flags) ==
    LET v == Get(flags, "logic_flow", PyStr(<<>>))
    IN  StrLower(StrOf(IF Truthy(v) THEN v ELSE PyStr(<<>>)))

\* calculate_logic(flags)[0]
calculate_logic(flags) ==
    LET fl == human_flow(flags)
        cap0 == IF \/ StrContains(formula_first, fl) \/ StrContains(formula_dump, fl)
                   \/ StrContains(formula_to_solving, fl) \/ StrContains(formula_dash_to_solving, fl)
                THEN 3000 ELSE 5000
        cap1 == IF IntOf(Get(flags, "pure_calc_bias", Zero)) >= 2 THEN Min(cap0, 3500) ELSE cap0
        brevity_ == IntOf(Get(flags, "brevity", Zero))
        cap2 == IF brevity_ = 3 THEN Min(cap1, 2000) ELSE cap1
        fd_ == human_sev_penalty(Get(flags, "formula_dumping", Zero), 500, 1500, 2000)
        pc_ == human_sev_penalty(Get(flags, "pure_calc_bias", Zero), 300, 1000, 1500)
        dg_ == human_sev_penalty(Get(flags, "pedagogical_depth_gap", Zero), 300, 1000, 1500)
        cb_ == human_sev_penalty(PyInt(brevity_), 500, 1500, 3000)
        sc_ == human_sev_penalty(Get(flags, "superficial", Zero), 500, 1500, 2000)
        mc_ == human_sev_penalty(Get(flags, "missing_core_concepts", Zero), 300, 1000, 1500)
        bw_ == human_sev_penalty(Get(flags, "breadth_without_depth", Zero), 200, 500, 1000)
        ll == IntOf(Get(flags, "logic_leaps", Zero))
        pv == IntOf(Get(flags, "prereq_violations", Zero))
        ci == IntOf(Get(flags, "causal_inconsistencies", Zero))
        io == IntOf(Get(flags, "information_overload", Zero))
        logic == 5000 - (fd_ + pc_ + dg_ + cb_ + sc_ + mc_ + bw_)
                 - (ll * 500 + pv * 500 + ci * 400 + io * 200)
    IN  Round2(Min(cap2, Max(1000, logic)))

adapt_penalty(level) == human_sev_penalty(level, 300, 600, 1000)

monotone_penalty(level) == human_sev_penalty(level, 500, 1000, 1500)

disconnect_penalty(level) == human_sev_penalty(level, 500, 1000, 1500)

\* calculate_adaptability(flags)[0]
calculate_adaptability(flags) ==
    LET c == Get(flags, "contrast_level", Zero)
        va_ == IntOf(IF Truthy(c) THEN c ELSE Zero)
        score == 5000 - adapt_penalty(Get(flags, "jargon_level", Zero))
                      - adapt_penalty(Get(flags, "prerequisite_level", Zero))
                      - adapt_penalty(Get(flags, "pacing_level", Zero))
                      - adapt_penalty(Get(flags, "scaffolding_level", Zero))
                      - (IF va_ = 1 THEN 300 ELSE IF va_ = 2 THEN 600 ELSE IF va_ >= 3 THEN 1000 ELSE 0)
    IN  Max(0, Min(5000, Round2(score)))

\* calculate_engagement(flags)[0]
calculate_engagement(flags) ==
    LET score == 5000 - monotone_penalty(Get(flags, "monotone_level", Zero))
                      - adapt_penalty(Get(flags, "ai_fatigue_level", Zero))
                      - adapt_penalty(Get(flags, "clutter_level", Zero))
                      - disconnect_penalty(Get(flags, "disconnect_level", Zero))
    IN  Max(0, Min(5000, Round2(score)))

\* the form's keys whose value goes through int()
HumanIntKeys ==
    {"pure_calc_bias", "brevity", "critical_errors", "minor_slips", "logic_leaps",
     "prereq_violations", "causal_inconsistencies", "information_overload"}

\* the form's keys whose value indexes a penalty list
HumanLevelKeys ==
    {"formula_dumping", "pure_calc_bias", "pedagogical_depth_gap", "brevity", "superficial",
     "missing_core_concepts", "breadth_without_depth", "title_mismatch", "visual_alignment",
     "jargon_level", "prerequisite_level", "pacing_level", "scaffolding_level",
     "monotone_level", "ai_fatigue_level", "clutter_level", "disconnect_level"}

\* a scoring function of the form raises on these flags: int() of a value that is
\* not a number, or a penalty list index out of range
HumanRaises(flags) ==
    \E k \in DOMAIN flags :
        \/ k \in HumanIntKeys /\ IntRaises(flags[k])
        \/ k = "contrast_level" /\ Truthy(flags[k]) /\ IntRaises(flags[k])
        \/ k \in HumanLevelKeys /\ IsInstanceNumber(flags[k]) /\ Min(IntOf(flags[k]), 3) < -4

----------------------------------------------------------------------------
(* The responses the scorers are given.  A flag is named by its path in    *)
(* the response dictionary.                                                *)

RECURSIVE HasPath(_, _)
HasPath(d, path) ==
    IF path[1] \in DOMAIN d
    THEN (IF Len(path) = 1 THEN TRUE ELSE HasPath(d[path[1]], Tail(path)))
    ELSE FALSE

RECURSIVE GetPath(_, _)
GetPath(d, path) == IF Len(path) = 1 THEN d[path[1]] ELSE GetPath(d[path[1]], Tail(path))

RECURSIVE PutPath(_, _, _)
PutPath(d, path, v) ==
    IF Len(path) = 1 THEN Put(d, path[1], v)
    ELSE Put(d, path[1], PutPath(Get(d, path[1], EmptyDict), Tail(path), v))

\* delete a key; a dictionary left empty is deleted from its parent
RECURSIVE DelPath(_, _)
DelPath(d, path) ==
    IF Len(path) = 1 THEN Del(d, path[1])
    ELSE LET sub == DelPath(d[path[1]], Tail(path))
         IN  IF DOMAIN sub = {} THEN Del(d, path[1]) ELSE Put(d, path[1], sub)

ObjLevelPaths ==
    {<<"pedagogical_depth", "formula_dumping_level">>,
     <<"pedagogical_depth", "pure_calculation_bias_level">>,
     <<"pedagogical_depth", "pedagogical_depth_gap_level">>,
     <<"completeness", "content_brevity_level">>,
     <<"completeness", "superficial_coverage_level">>,
     <<"completeness", "missing_core_concepts_level">>,
     <<"completeness", "breadth_without_depth_level">>,
     <<"accuracy_flags", "title_content_mismatch_level">>,
     <<"accuracy_flags", "visual_alignment_issue_level">>}

ObjCountPaths ==
    {<<"accuracy_flags", "critical_fact_error_count">>,
     <<"accuracy_flags", "minor_slip_count">>,
     <<"logic_flags", "logic_leap_count">>,
     <<"logic_flags", "prerequisite_violation_count">>,
     <<"logic_flags", "causal_inconsistency_count">>,
     <<"logic_flags", "information_overload_count">>}

ObjFlowPaths == {<<"logic_flags", "logic_flow_assessment">>, <<"content_overview", "logic_flow">>}

ObjGroupPaths ==
    {<<"pedagogical_depth">>, <<"completeness">>, <<"accuracy_flags">>, <<"logic_flags">>}

SubjLevelPaths ==
    {<<"audit_log", "adaptability_flags", "jargon_overload_level">>,
     <<"audit_log", "adaptability_flags", "prerequisite_gap_level">>,
     <<"audit_log", "adaptability_flags", "pacing_mismatch_level">>,
     <<"audit_log", "adaptability_flags", "missing_scaffolding_level">>,
     <<"audit_log", "adaptability_flags", "visual_accessibility_level">>,
     <<"audit_log", "engagement_flags", "monotone_audio_level">>,
     <<"audit_log", "engagement_flags", "ai_generated_fatigue_level">>,
     <<"audit_log", "engagement_flags", "visual_clutter_level">>,
     <<"audit_log", "engagement_flags", "disconnect_level">>}

\* the boolean flags of the earlier protocol, and the fatigue flag reported beside
\* engagement_flags
SubjLegacyPaths ==
    {<<"audit_log", "adaptability_flags", "jargon_overload">>,
     <<"audit_log", "adaptability_flags", "prerequisite_gap">>,
     <<"audit_log", "adaptability_flags", "pacing_mismatch">>,
     <<"audit_log", "adaptability_flags", "missing_scaffolding">>,
     <<"audit_log", "adaptability_flags", "visual_accessibility_issue">>,
     <<"audit_log", "engagement_flags", "monotone_audio">>,
     <<"audit_log", "engagement_flags", "ai_generated_fatigue">>,
     <<"audit_log", "engagement_flags", "visual_clutter">>,
     <<"audit_log", "engagement_flags", "disconnect">>,
     <<"audit_log", "ai_generated_fatigue">>}

SubjTypePaths == {<<"audit_log", "adaptability_flags", "accessibility_issue_type">>}

SubjGroupPaths ==
    {<<"audit_log", "adaptability_flags">>, <<"audit_log", "engagement_flags">>, <<"audit_log">>}

\* flow labels: the judge prompt's two, one of them also as a model may spell it, and
\* the review form's label for a formula-first flow
FlowLabels ==
    {<<"c", "o", "n", "c", "r", "e", "t", "e", "_", "t", "o", "_", "a", "b", "s", "t", "r", "a", "c", "t">>,
     formula_to_solving,
     <<"F", "o", "r", "m", "u", "l", "a", "-", "T", "o", "-", "S", "o", "l", "v", "i", "n", "g">>,
     <<"F", "o", "r", "m", "u", "l", "a", " ", "F", "i", "r", "s", "t", " ", "(", "B", "a", "d", ")">>}

IssueTypeLabels ==
    {contrast,
     <<"S", "i", "g", "n", "a", "l", "i", "n", "g">>,
     <<"c", "o", "n", "t", "r", "a", "s", "t", " ", "a", "n", "d", " ", "s", "i", "g", "n", "a", "l", "i", "n", "g">>}

FlagPaths(k) ==
    IF k = "objective" THEN ObjLevelPaths \cup ObjCountPaths \cup ObjFlowPaths
    ELSE SubjLevelPaths \cup SubjLegacyPaths \cup SubjTypePaths

GroupPaths(k) == IF k = "objective" THEN ObjGroupPaths ELSE SubjGroupPaths

\* the values a response may report for a flag
FlagValues(path) ==
    IF path \in ObjLevelPaths \cup SubjLevelPaths THEN {PyInt(i) : i \in 0..MaxLevel}
    ELSE IF path \in ObjCountPaths THEN {PyInt(i) : i \in 0..MaxCount}
    ELSE IF path \in ObjFlowPaths THEN {PyStr(l) : l \in FlowLabels}
    ELSE IF path \in SubjLegacyPaths THEN {PyBool(TRUE), PyBool(FALSE)}
    ELSE {PyStr(l) : l \in IssueTypeLabels}

\* the response that reports every level flag at 3 and every count at MaxCount
SevereResponse(k) ==
    IF k = "objective"
    THEN [g \in {"pedagogical_depth", "completeness", "accuracy_flags", "logic_flags"} |->
            [f \in {p[2] : p \in {q \in ObjLevelPaths \cup ObjCountPaths \cup ObjFlowPaths : q[1] = g}} |->
                IF <<g, f>> \in ObjLevelPaths THEN PyInt(3)
                ELSE IF <<g, f>> \in ObjCountPaths THEN PyInt(MaxCount)
                ELSE PyStr(formula_to_solving)]]
    ELSE [a \in {"audit_log"} |->
            [g \in {"adaptability_flags", "engagement_flags"} |->
                [f \in {p[3] : p \in {q \in SubjLevelPaths \cup SubjTypePaths : q[2] = g}} |->
                    IF <<a, g, f>> \in SubjLevelPaths THEN PyInt(3)
                    ELSE PyStr(<<"S", "i", "g", "n", "a", "l", "i", "n", "g">>)]]]

\* what a model's JSON may hold besides well-formed flags: a null where a number or a
\* string is expected, and scores of its own
RawPaths(k) ==
    IF k = "objective"
    THEN {<<"pedagogical_depth", "pure_calculation_bias_level">>,
          <<"completeness", "content_brevity_level">>,
          <<"accuracy_flags", "critical_fact_error_count">>,
          <<"logic_flags", "logic_leap_count">>,
          <<"accuracy_score">>, <<"logic_score">>}
    ELSE {<<"audit_log", "adaptability_flags", "accessibility_issue_type">>,
          <<"subjective_scores">>}

RawValues(path) ==
    IF path = <<"accuracy_score">> THEN {PyFloat(4500)}
    ELSE IF path = <<"logic_score">> THEN {PyFloat(1500)}
    ELSE IF path = <<"subjective_scores">>
         THEN {PyNone,
               [adaptability |-> PyInt(0), engagement |-> PyInt(0)],
               [adaptability |-> [score |-> PyFloat(4000)], engagement |-> [score |-> PyFloat(0)]]}
         ELSE {PyNone}

----------------------------------------------------------------------------
(* The flags of a response written in the review form's vocabulary.        *)

ObjFormKeys ==
    <<[path |-> <<"pedagogical_depth", "formula_dumping_level">>, key |-> "formula_dumping"],
      [path |-> <<"pedagogical_depth", "pure_calculation_bias_level">>, key |-> "pure_calc_bias"],
      [path |-> <<"pedagogical_depth", "pedagogical_depth_gap_level">>, key |-> "pedagogical_depth_gap"],
      [path |-> <<"completeness", "content_brevity_level">>, key |-> "brevity"],
      [path |-> <<"completeness", "superficial_coverage_level">>, key |-> "superficial"],
      [path |-> <<"completeness", "missing_core_concepts_level">>, key |-> "missing_core_concepts"],
      [path |-> <<"completeness", "breadth_without_depth_level">>, key |-> "breadth_without_depth"],
      [path |-> <<"accuracy_flags", "title_content_mismatch_level">>, key |-> "title_mismatch"],
      [path |-> <<"accuracy_flags", "visual_alignment_issue_level">>, key |-> "visual_alignment"],
      [path |-> <<"accuracy_flags", "critical_fact_error_count">>, key |-> "critical_errors"],
      [path |-> <<"accuracy_flags", "minor_slip_count">>, key |-> "minor_slips"],
      [path |-> <<"content_overview", "logic_flow">>, key |-> "logic_flow"],
      [path |-> <<"logic_flags", "logic_flow_assessment">>, key |-> "logic_flow"],
      [path |-> <<"logic_flags", "logic_leap_count">>, key |-> "logic_leaps"],
      [path |-> <<"logic_flags", "prerequisite_violation_count">>, key |-> "prereq_violations"],
      [path |-> <<"logic_flags", "causal_inconsistency_count">>, key |-> "causal_inconsistencies"],
      [path |-> <<"logic_flags", "information_overload_count">>, key |-> "information_overload"]>>

SubjFormKeys ==
    <<[path |-> <<"audit_log", "adaptability_flags", "jargon_overload_level">>, key |-> "jargon_level"],
      [path |-> <<"audit_log", "adaptability_flags", "prerequisite_gap_level">>, key |-> "prerequisite_level"],
      [path |-> <<"audit_log", "adaptability_flags", "pacing_mismatch_level">>, key |-> "pacing_level"],
      [path |-> <<"audit_log", "adaptability_flags", "visual_accessibility_level">>, key |-> "contrast_level"],
      [path |-> <<"audit_log", "adaptability_flags", "missing_scaffolding_level">>, key |-> "scaffolding_level"],
      [path |-> <<"audit_log", "engagement_flags", "monotone_audio_level">>, key |-> "monotone_level"],
      [path |-> <<"audit_log", "engagement_flags", "ai_generated_fatigue_level">>, key |-> "ai_fatigue_level"],
      [path |-> <<"audit_log", "engagement_flags", "visual_clutter_level">>, key |-> "clutter_level"],
      [path |-> <<"audit_log", "engagement_flags", "disconnect_level">>, key |-> "disconnect_level"]>>

\* the form dictionary holding the flags of r that `keys` names; the last entry of
\* `keys` for a form key wins
FormOf(r, keys) ==
    LET present == {i \in 1..Len(keys) : HasPath(r, keys[i].path)}
        last(k) == CHOOSE i \in present : keys[i].key = k /\ \A j \in present : keys[j].key = k => j <= i
    IN  [k \in {keys[i].key : i \in present} |-> GetPath(r, keys[last(k)].path)]

----------------------------------------------------------------------------
(* The state machine: a response is reported, scored by the pipeline,      *)
(* scored again, or reviewed on the form with the same flag values.        *)

InitKind(k) ==
    /\ kind = k
    /\ result \in {EmptyDict, SevereResponse(k)}
    /\ edits = 0
    /\ pc = "response"
    /\ form = EmptyDict
    /\ metrics = EmptyDict
    /\ mode = "scoring"
    /\ units = <<>>
    /\ sem = MaxConcurrent
    /\ waiters = <<>>
    /\ results = <<>>
    /\ jobs = <<>>
    /\ run = <<>>
    /\ media = <<>>
    /\ downloads = <<>>

InitObjective == InitKind("objective")

InitSubjective == InitKind("subjective")

Init == InitObjective \/ InitSubjective

\* the model reports a flag
SetFlag(path, v) ==
    /\ pc = "response"
    /\ edits < MaxEdits
    /\ result' = PutPath(result, path, v)
    /\ edits' = edits + 1
    /\ UNCHANGED <<kind, pc, form, metrics>>
    /\ UNCHANGED pvars
    /\ UNCHANGED rvars

\* the model leaves a flag out
DropFlag(path) ==
    /\ pc = "response"
    /\ edits < MaxEdits
    /\ HasPath(result, path)
    /\ result' = DelPath(result, path)
    /\ edits' = edits + 1
    /\ UNCHANGED <<kind, pc, form, metrics>>
    /\ UNCHANGED pvars
    /\ UNCHANGED rvars

\* the model leaves a whole flag group out
DropGroup(path) ==
    /\ pc = "response"
    /\ edits < MaxEdits
    /\ HasPath(result, path)
    /\ result' = DelPath(result, path)
    /\ edits' = edits + 1
    /\ UNCHANGED <<kind, pc, form, metrics>>
    /\ UNCHANGED pvars
    /\ UNCHANGED rvars

\* Stage B applies _calculate_agent2_scores to the judge's response (again, to the
\* dictionary it returned)
CalculateAgent2Scores ==
    /\ kind = "objective"
    /\ pc \in {"response", "scored"}
    /\ result' = calculate_agent2_scores(result)
    /\ pc' = IF pc = "response" THEN "scored" ELSE "rescored"
    /\ UNCHANGED <<kind, edits, form, metrics>>
    /\ UNCHANGED pvars
    /\ UNCHANGED rvars

\* Stage C applies _calculate_deterministic_scores to the simulation's response
CalculateDeterministicScores ==
    /\ kind = "subjective"
    /\ pc \in {"response", "scored"}
    /\ result' = calculate_deterministic_scores(result)
    /\ pc' = IF pc = "response" THEN "scored" ELSE "rescored"
    /\ UNCHANGED <<kind, edits, form, metrics>>
    /\ UNCHANGED pvars
    /\ UNCHANGED rvars

\* a human evaluator enters the response's objective flags on the form, which scores them
ReviewObjective ==
    /\ kind = "objective"
    /\ pc = "scored"
    /\ form' = FormOf(result, ObjFormKeys)
    /\ ~HumanRaises(form')
    /\ metrics' = [accuracy |-> calculate_accuracy(form'), logic |-> calculate_logic(form')]
    /\ pc' = "reviewed"
    /\ UNCHANGED <<kind, result, edits>>
    /\ UNCHANGED pvars
    /\ UNCHANGED rvars

\* a human evaluator enters the response's subjective levels on the form, which scores them
ReviewSubjective ==
    /\ kind = "subjective"
    /\ pc = "scored"
    /\ form' = FormOf(result, SubjFormKeys)
    /\ ~HumanRaises(form')
    /\ metrics' = [adaptability |-> calculate_adaptability(form'),
                   engagement |-> calculate_engagement(form')]
    /\ pc' = "reviewed"
    /\ UNCHANGED <<kind, result, edits>>
    /\ UNCHANGED pvars
    /\ UNCHANGED rvars

\* Stage C checks the scores it has just computed
CheckAgent3ScoresValid ==
    /\ kind = "subjective"
    /\ pc = "scored"
    /\ metrics' = [valid |-> check_agent3_scores_valid(result)]
    /\ pc' = "checked"
    /\ UNCHANGED <<kind, result, edits, form>>
    /\ UNCHANGED pvars
    /\ UNCHANGED rvars

\* the model's JSON holds a null or scores of its own
ReportRaw ==
    /\ pc = "response"
    /\ edits < MaxEdits
    /\ \E path \in RawPaths(kind) : \E v \in RawValues(path) : SetFlag(path, v)

\* the collaborator composes its response
Report ==
    /\ pc = "response"
    /\ edits < MaxEdits
    /\ \/ \E path \in FlagPaths(kind) : \E v \in FlagValues(path) : SetFlag(path, v)
       \/ \E path \in FlagPaths(kind) : DropFlag(path)
       \/ \E path \in GroupPaths(kind) : DropGroup(path)

NextObjective ==
    \/ Report
    \/ CalculateAgent2Scores
    \/ ReviewObjective

NextSubjective ==
    \/ Report
    \/ CalculateDeterministicScores
    \/ ReviewSubjective

Next ==
    \/ Report
    \/ CalculateAgent2Scores
    \/ CalculateDeterministicScores
    \/ ReviewObjective
    \/ ReviewSubjective

\* the judge's responses and the review of their flags
SpecObjective == InitObjective /\ [][NextObjective]_vars

\* the simulation's responses and the review of their flags
SpecSubjective == InitSubjective /\ [][NextSubjective]_vars

\* both
Spec == Init /\ [][Next]_vars

NextScoring ==
    \/ Report
    \/ CalculateAgent2Scores
    \/ CalculateDeterministicScores

\* the responses of both collaborators, scored by the engine
SpecScoring == Init /\ [][NextScoring]_vars

NextRaw ==
    \/ Report
    \/ ReportRaw
    \/ CalculateAgent2Scores
    \/ CalculateDeterministicScores
    \/ CheckAgent3ScoresValid

\* responses as the models' JSON delivers them, scored and checked
SpecRaw == Init /\ [][NextRaw]_vars

\* level values a response can hold beside the levels 0..3: booleans, negative
\* integers, a level above 3, a fraction, a numeral and null
OtherLevels ==
    {PyBool(TRUE), PyBool(FALSE), PyInt(-1), PyInt(-5), PyInt(MaxLevel + 1),
     PyFloat(2500), PyStr(<<"2">>), PyNone}

\* a response that reports such a value for one of its level flags
InitLevels ==
    /\ kind \in {"objective", "subjective"}
    /\ \E base \in {EmptyDict, SevereResponse(kind)} :
       \E path \in (IF kind = "objective" THEN ObjLevelPaths ELSE SubjLevelPaths) :
       \E v \in OtherLevels :
          result = PutPath(base, path, v)
    /\ edits = MaxEdits - 1
    /\ pc = "response"
    /\ form = EmptyDict
    /\ metrics = EmptyDict
    /\ mode = "scoring"
    /\ units = <<>>
    /\ sem = MaxConcurrent
    /\ waiters = <<>>
    /\ results = <<>>
    /\ jobs = <<>>
    /\ run = <<>>
    /\ media = <<>>
    /\ downloads = <<>>

\* responses with unusual level values, scored and reviewed
SpecLevels == InitLevels /\ [][Next]_vars

----------------------------------------------------------------------------
(* The pipeline: AsyncConcurrentProcessor.process_single_task under the    *)
(* processor's semaphore, launched by process_all_tasks or by the server.  *)

Execs == 1..NumExecs

\* an exception, as a value: what a stage raises, what gather returns for a task that raised
Raised == [t |-> "exception", n |-> 0, s |-> <<>>]

IsException(x) == IF IsDict(x) THEN FALSE ELSE x.t = "exception"

\* a JSON array where the prompt asked for an object
PyList == [t |-> "list", n |-> 1, s |-> <<>>]

\* {"error": str(e)}
ErrorDict == [error |-> PyStr(<<"e">>)]

\* {"error": "Empty response"}
EmptyResponse == [error |-> PyStr(<<"E", "m", "p", "t", "y">>)]

\* result or {"error": "Empty response"}
OrEmptyResponse(x) ==
    IF IsDict(x) THEN (IF DOMAIN x = {} THEN EmptyResponse ELSE x)
    ELSE IF x.t = "none" THEN EmptyResponse ELSE x

\* what a call of the content analysis model comes to: an analysis, or an exception
Agent1Calls == {[content_type |-> PyStr(<<"m">>)], Raised}

\* what a call of the judge comes to: a response with flags, or an exception
Agent2Calls == {[accuracy_flags |-> [critical_fact_error_count |-> PyInt(1)]], Raised}

\* what a call of the student simulation comes to: a response with few flags, a response
\* with every flag severe, a JSON array, or an exception
Agent3Calls ==
    {[audit_log |-> [adaptability_flags |-> [jargon_overload_level |-> PyInt(1)]]],
     SevereResponse("subjective"),
     PyList,
     Raised}

\* fault variant of run_agent1_sync: Stage A hands over nothing
run_agent1_sync_unfinished(call) == PyNone

\* run_agent1_sync: the whole body is inside try / except Exception
run_agent1_sync(call) == IF IsException(call) THEN ErrorDict ELSE OrEmptyResponse(call)

\* run_agent2_sync: the model call and the scoring are inside try / except Exception
run_agent2_sync(call) ==
    IF IsException(call) THEN ErrorDict ELSE calculate_agent2_scores(OrEmptyResponse(call))

\* run_agent2_sync, tabulated over the calls
Agent2Results == [call \in Agent2Calls |-> run_agent2_sync(call)]

\* final_result = self._calculate_deterministic_scores(result or {"error": "Empty response"}),
\* tabulated over the calls that did not raise
Agent3Scored ==
    [call \in Agent3Calls |->
        IF IsException(call) THEN call ELSE calculate_deterministic_scores(OrEmptyResponse(call))]

\* self._check_agent3_scores_valid(final_result), tabulated over the calls
Agent3Valid == [call \in Agent3Calls |-> check_agent3_scores_valid(Agent3Scored[call])]

\* fault variant of attempt_returns: every first attempt is followed by a second one
attempt_returns_last_only(attempt, call) == attempt = max_retries

\* one pass of run_agent3_sync's loop returns (TRUE) or goes on to the next attempt
attempt_returns(attempt, call) ==
    IF IsException(call) THEN attempt = max_retries
    ELSE IF Agent3Valid[call] THEN TRUE
    ELSE ~(attempt < max_retries)

\* what the returning pass of run_agent3_sync returns
attempt_value(call) == IF IsException(call) THEN ErrorDict ELSE Agent3Scored[call]

\* final_result after a pass: unchanged when the model call raised
attempt_final_result(final_result, call) ==
    IF IsException(call) THEN final_result ELSE Agent3Scored[call]

\* fault variant of ExtractScore: the score of an entry is not read
ExtractScore_unread(entry) == PyInt(0)

\* adaptability.get("score", 0) if isinstance(adaptability, dict)
ExtractScore(entry) == IF IsDict(entry) THEN Get(entry, "score", PyInt(0)) ELSE entry

\* the score extraction and the formatted print of process_single_task raise
ExtractRaises(agent2_result, agent3_result) ==
    IF ~IsDict(agent3_result) THEN TRUE
    ELSE IF ~IsDict(Get(agent3_result, "subjective_scores", EmptyDict)) THEN TRUE
    ELSE LET subj_scores == Get(agent3_result, "subjective_scores", EmptyDict)
         IN  \E v \in {Get(agent2_result, "accuracy_score", PyInt(0)),
                       Get(agent2_result, "logic_score", PyInt(0)),
                       ExtractScore(Get(subj_scores, "adaptability", PyInt(0))),
                       ExtractScore(Get(subj_scores, "engagement", PyInt(0)))} :
                 IF IsDict(v) THEN TRUE ELSE ~IsInstanceNumber(v)

\* fault variant of TaskResult: a result with both subjective scores at 0 fails the unit
TaskResult_zero_is_failure(agent1_result, agent2_result, agent3_result) ==
    IF ExtractRaises(agent2_result, agent3_result) \/ ~check_agent3_scores_valid(agent3_result)
    THEN [success |-> FALSE, error |-> PyStr(<<"e">>)]
    ELSE [success |-> TRUE,
          agent1_result |-> agent1_result,
          agent2_result |-> agent2_result,
          agent3_result |-> agent3_result,
          scores |-> [accuracy |-> Get(agent2_result, "accuracy_score", PyInt(0)),
                      logic |-> Get(agent2_result, "logic_score", PyInt(0)),
                      adaptability |-> agent3_result["subjective_scores"]["adaptability"].score,
                      engagement |-> agent3_result["subjective_scores"]["engagement"].score]]

\* the dictionary process_single_task returns once the three stages have returned
TaskResult(agent1_result, agent2_result, agent3_result) ==
    IF ExtractRaises(agent2_result, agent3_result)
    THEN [success |-> FALSE, error |-> PyStr(<<"e">>)]
    ELSE LET subj_scores == Get(agent3_result, "subjective_scores", EmptyDict)
         IN  [success |-> TRUE,
              agent1_result |-> agent1_result,
              agent2_result |-> agent2_result,
              agent3_result |-> agent3_result,
              scores |-> [accuracy |-> Get(agent2_result, "accuracy_score", PyInt(0)),
                          logic |-> Get(agent2_result, "logic_score", PyInt(0)),
                          adaptability |-> ExtractScore(Get(subj_scores, "adaptability", PyInt(0))),
                          engagement |-> ExtractScore(Get(subj_scores, "engagement", PyInt(0)))]]

\* an execution that was not launched yet
NewUnit ==
    [stage |-> "idle", attempt |-> 0, final_result |-> PyNone,
     agent1_result |-> PyNone, agent2_result |-> PyNone, agent3_result |-> PyNone,
     outcome |-> PyNone]

\* an execution that returned or raised: its locals are gone, its outcome remains
Finished(outcome) == [NewUnit EXCEPT !.stage = "done", !.outcome = outcome]

\* fault variant of Return: a failed execution takes the unfinished ones with it
Return_cancelling(e, outcome) ==
    [f \in Execs |->
        IF f = e THEN Finished(outcome)
        ELSE IF units[f].stage # "done" /\ (IF IsException(outcome) THEN TRUE ELSE ~outcome.success)
             THEN Finished(Raised)
             ELSE units[f]]

\* execution e ends with an outcome; no other execution is touched
Return(e, outcome) == [units EXCEPT ![e] = Finished(outcome)]

\* the job status run_analysis_task stores for an outcome of process_single_task
JobStatus(outcome) ==
    IF IsException(outcome) THEN "failed"
    ELSE IF outcome.success THEN "completed" ELSE "failed"

\* jobs[job_id]["status"], "none" for a job that was not submitted
StatusOf(job) == Get(job, "status", "none")

\* jobs[job_id]["status"] = "processing" and its start time
JobStarted(job) == Put(Put(job, "status", "processing"), "start_time", TRUE)

\* the except branch of the download: the job is failed with the error
DownloadFailed(job) == Put(Put(job, "status", "failed"), "error", PyStr(<<"D">>))

\* fault variant of JobDone: the status is stored without a result or an error
JobDone_status_only(job, outcome) == Put(Put(job, "status", JobStatus(outcome)), "end_time", TRUE)

\* the job entry after process_single_task has returned or raised: the status with the
\* result or the error, and the end time
JobDone(job, outcome) ==
    LET done == Put(Put(job, "status", JobStatus(outcome)), "end_time", TRUE)
    IN  IF IsException(outcome) THEN Put(done, "error", PyStr(<<"e">>))
        ELSE IF outcome.success
        THEN Put(done, "result", [scores |-> outcome.scores,
                                  agent1_analysis |-> outcome.agent1_result,
                                  agent2_report |-> outcome.agent2_result,
                                  agent3_simulation |-> outcome.agent3_result])
        ELSE Put(done, "error", Get(outcome, "error", PyStr(<<"U">>)))

InitPipeline ==
    /\ kind = "subjective"
    /\ result = EmptyDict
    /\ edits = 0
    /\ pc = "pipeline"
    /\ form = EmptyDict
    /\ metrics = EmptyDict
    /\ mode \in {"batch", "server"}
    /\ units = [e \in Execs |-> NewUnit]
    /\ sem = MaxConcurrent
    /\ waiters = <<>>
    /\ results = <<>>
    /\ jobs = [e \in Execs |-> EmptyDict]
    /\ run = <<>>
    /\ media = <<>>
    /\ downloads = <<>>

\* fault variant of permit_free: a permit is handed out whatever is left
permit_free_unbounded == TRUE

\* Semaphore.locked() is false: a permit is left and nobody waits for one
permit_free == sem > 0 /\ waiters = <<>>

\* fault variant of AcquireSemaphore: the permit of an execution that raises is not returned
AcquireSemaphore_leaking(e, sliceable) ==
    IF permit_free
    THEN /\ units' = IF sliceable THEN [units EXCEPT ![e].stage = "A"] ELSE Return(e, Raised)
         /\ sem' = sem - 1
         /\ UNCHANGED waiters
    ELSE /\ units' = [units EXCEPT ![e].stage = "waiting"]
         /\ waiters' = Append(waiters, e)
         /\ UNCHANGED sem

\* async with self.semaphore, entered by execution e: it takes a permit and starts
\* Stage A, or it is suspended behind the executions already waiting; a persona that
\* cannot be sliced (a number in the batch configuration) raises before the try block,
\* and leaving the async with block returns the permit
AcquireSemaphore(e, sliceable) ==
    IF permit_free
    THEN IF sliceable
         THEN /\ units' = [units EXCEPT ![e].stage = "A"]
              /\ sem' = sem - 1
              /\ UNCHANGED waiters
         ELSE /\ units' = Return(e, Raised)
              /\ UNCHANGED <<sem, waiters>>
    ELSE /\ units' = [units EXCEPT ![e].stage = "waiting"]
         /\ waiters' = Append(waiters, e)
         /\ UNCHANGED sem

\* process_all_tasks hands every execution to asyncio.gather
ProcessAllTasks ==
    /\ mode = "batch"
    /\ \A e \in Execs : units[e].stage = "idle"
    /\ units' = [e \in Execs |-> [units[e] EXCEPT !.stage = "launched"]]
    /\ UNCHANGED <<sem, waiters, results, jobs, mode>>
    /\ UNCHANGED <<kind, result, edits, pc, form, metrics>>
    /\ UNCHANGED rvars

\* the event loop starts the task of execution e, which runs up to its first await
StartTask(e) ==
    /\ mode = "batch"
    /\ units[e].stage = "launched"
    /\ \E sliceable \in BOOLEAN : AcquireSemaphore(e, sliceable)
    /\ UNCHANGED <<results, jobs, mode>>
    /\ UNCHANGED <<kind, result, edits, pc, form, metrics>>
    /\ UNCHANGED rvars

\* POST /analyze stores a pending job and queues its background task
CreateAnalysisJob(e) ==
    /\ mode = "server"
    /\ StatusOf(jobs[e]) = "none"
    /\ jobs' = [jobs EXCEPT ![e] = [status |-> "pending"]]
    /\ UNCHANGED <<units, sem, waiters, results, mode>>
    /\ UNCHANGED <<kind, result, edits, pc, form, metrics>>
    /\ UNCHANGED rvars

\* run_analysis_task up to its first await: the download fails and the job with it, or
\* process_single_task is entered (the request's persona is a string)
RunAnalysisTask(e) ==
    /\ mode = "server"
    /\ StatusOf(jobs[e]) = "pending"
    /\ \E downloaded \in BOOLEAN :
          IF downloaded
          THEN /\ jobs' = [jobs EXCEPT ![e] = JobStarted(jobs[e])]
               /\ AcquireSemaphore(e, TRUE)
          ELSE /\ jobs' = [jobs EXCEPT ![e] = DownloadFailed(JobStarted(jobs[e]))]
               /\ UNCHANGED <<units, sem, waiters>>
    /\ UNCHANGED <<results, mode>>
    /\ UNCHANGED <<kind, result, edits, pc, form, metrics>>
    /\ UNCHANGED rvars

\* a released permit wakes the execution that waited longest
WakeUp(e) ==
    /\ waiters # <<>>
    /\ Head(waiters) = e
    /\ sem > 0
    /\ waiters' = Tail(waiters)
    /\ \E sliceable \in (IF mode = "batch" THEN BOOLEAN ELSE {TRUE}) :
          IF sliceable
          THEN /\ units' = [units EXCEPT ![e].stage = "A"]
               /\ sem' = sem - 1
          ELSE /\ units' = Return(e, Raised)
               /\ UNCHANGED sem
    /\ UNCHANGED <<results, jobs, mode>>
    /\ UNCHANGED <<kind, result, edits, pc, form, metrics>>
    /\ UNCHANGED rvars

\* Stage A returns; process_single_task goes on to Stage B
Agent1Returns(e) ==
    /\ units[e].stage = "A"
    /\ \E call \in Agent1Calls :
          units' = [units EXCEPT ![e].stage = "B", ![e].agent1_result = run_agent1_sync(call)]
    /\ UNCHANGED <<sem, waiters, results, jobs, mode>>
    /\ UNCHANGED <<kind, result, edits, pc, form, metrics>>
    /\ UNCHANGED rvars

\* Stage B returns; process_single_task goes on to Stage C, whose first attempt begins
Agent2Returns(e) ==
    /\ units[e].stage = "B"
    /\ \E call \in Agent2Calls :
          units' = [units EXCEPT ![e].stage = "C", ![e].attempt = 1,
                                 ![e].agent2_result = Agent2Results[call]]
    /\ UNCHANGED <<sem, waiters, results, jobs, mode>>
    /\ UNCHANGED <<kind, result, edits, pc, form, metrics>>
    /\ UNCHANGED rvars

\* one attempt of Stage C ends: run_agent3_sync goes on to the next attempt, or it
\* returns and its thread hands the result to process_single_task
Agent3Attempt(e) ==
    /\ units[e].stage = "C"
    /\ \E call \in Agent3Calls :
          IF attempt_returns(units[e].attempt, call)
          THEN units' = [units EXCEPT ![e].stage = "extract", ![e].attempt = 0,
                                      ![e].final_result = PyNone,
                                      ![e].agent3_result = attempt_value(call)]
          ELSE units' = [units EXCEPT
                            ![e].attempt = units[e].attempt + 1,
                            ![e].final_result = attempt_final_result(units[e].final_result, call)]
    /\ UNCHANGED <<sem, waiters, results, jobs, mode>>
    /\ UNCHANGED <<kind, result, edits, pc, form, metrics>>
    /\ UNCHANGED rvars

\* process_single_task resumes after Stage C: it extracts the scores, returns its
\* result and leaves the async with block; a server job stores its status
FinishTask(e) ==
    /\ units[e].stage = "extract"
    /\ LET outcome == TaskResult(units[e].agent1_result, units[e].agent2_result,
                                 units[e].agent3_result)
       IN  /\ units' = Return(e, outcome)
           /\ jobs' = IF mode = "server" THEN [jobs EXCEPT ![e] = JobDone(jobs[e], outcome)] ELSE jobs
    /\ sem' = sem + 1
    /\ UNCHANGED <<waiters, results, mode>>
    /\ UNCHANGED <<kind, result, edits, pc, form, metrics>>
    /\ UNCHANGED rvars

\* asyncio.gather(*processing_tasks, return_exceptions=True) returns
Gather ==
    /\ mode = "batch"
    /\ results = <<>>
    /\ \A e \in Execs : units[e].stage = "done"
    /\ results' = [e \in Execs |-> units[e].outcome]
    /\ UNCHANGED <<units, sem, waiters, jobs, mode>>
    /\ UNCHANGED <<kind, result, edits, pc, form, metrics>>
    /\ UNCHANGED rvars

NextPipeline ==
    \/ ProcessAllTasks
    \/ \E e \in Execs : StartTask(e)
    \/ \E e \in Execs : CreateAnalysisJob(e)
    \/ \E e \in Execs : RunAnalysisTask(e)
    \/ \E e \in Execs : WakeUp(e)
    \/ \E e \in Execs : Agent1Returns(e)
    \/ \E e \in Execs : Agent2Returns(e)
    \/ \E e \in Execs : Agent3Attempt(e)
    \/ \E e \in Execs : FinishTask(e)
    \/ Gather

\* the pipeline, as a batch or as the server
SpecPipeline == InitPipeline /\ [][NextPipeline]_vars

InitBatch == InitPipeline /\ mode = "batch"

NextBatch ==
    \/ ProcessAllTasks
    \/ \E e \in Execs : StartTask(e)
    \/ \E e \in Execs : WakeUp(e)
    \/ \E e \in Execs : Agent1Returns(e)
    \/ \E e \in Execs : Agent2Returns(e)
    \/ \E e \in Execs : Agent3Attempt(e)
    \/ \E e \in Execs : FinishTask(e)
    \/ Gather

\* a batch when the event loop runs every task that is ready and every stage call returns
SpecBatchFair == InitBatch /\ [][NextBatch]_vars /\ WF_vars(NextBatch)

----------------------------------------------------------------------------
(* One call of process_all_tasks: dispatch, completion of the executions   *)
(* in any order, and the saving of the results.                            *)

\* the tasks prepare_tasks handed over, each with a video file that exists or not
Tasks == 1..NumTasks

\* fault variant of ValidTasks: tasks without a video file are kept
RECURSIVE ValidTasks_unfiltered(_, _)
ValidTasks_unfiltered(valid, from) ==
    IF from > NumTasks THEN <<>> ELSE <<from>> \o ValidTasks_unfiltered(valid, from + 1)

\* valid_tasks = [t for t in tasks if t.video_path and t.video_path.exists()], in order
RECURSIVE ValidTasks(_, _)
ValidTasks(valid, from) ==
    IF from > NumTasks THEN <<>>
    ELSE IF valid[from] THEN <<from>> \o ValidTasks(valid, from + 1)
    ELSE ValidTasks(valid, from + 1)

\* fault variant of ProcessingTasks: the last repetition is not dispatched
ProcessingTasks_one_run_short(valid_tasks, num_runs) ==
    [p \in 1..(Len(valid_tasks) * (num_runs - 1)) |->
        [task |-> valid_tasks[((p - 1) % Len(valid_tasks)) + 1],
         task_idx |-> ((p - 1) % Len(valid_tasks)) + 1,
         run_id |-> ((p - 1) \div Len(valid_tasks)) + 1]]

\* processing_tasks: for run_id in 1..num_runs, for idx, task in enumerate(valid_tasks, 1)
ProcessingTasks(valid_tasks, num_runs) ==
    [p \in 1..(Len(valid_tasks) * num_runs) |->
        [task |-> valid_tasks[((p - 1) % Len(valid_tasks)) + 1],
         task_idx |-> ((p - 1) % Len(valid_tasks)) + 1,
         run_id |-> ((p - 1) \div Len(valid_tasks)) + 1]]

\* what the three stages of process_single_task come to: a successful result, or a
\* failure result when Stage C hands back something that is no dictionary
SingleTaskResults ==
    {TaskResult(run_agent1_sync(c1), Agent2Results[c2], attempt_value(c3)) :
        c1 \in {[content_type |-> PyStr(<<"m">>)]},
        c2 \in {[accuracy_flags |-> [critical_fact_error_count |-> PyInt(1)]]},
        c3 \in {[audit_log |-> [adaptability_flags |-> [jargon_overload_level |-> PyInt(1)]]],
                PyList}}

\* what process_single_task comes to for an execution: its result dictionary, with the
\* task_idx and run_id it was called with, or the exception that escaped it
TaskOutcomes(disp) ==
    {[task_idx |-> disp.task_idx, run_id |-> disp.run_id] @@ r : r \in SingleTaskResults}
    \cup {Raised}

\* fault variant of JsonFilename: the run is left out of the name
JsonFilename_without_run(num_runs, task_idx, run_id) == <<"task", task_idx>>

\* json_filename: f"{timestamp}_task_{task_idx}_run_{run_id}.json" when num_runs > 1,
\* f"{timestamp}_task_{task_idx}.json" otherwise
JsonFilename(num_runs, task_idx, run_id) ==
    IF num_runs > 1 THEN <<"task", task_idx, "run", run_id>> ELSE <<"task", task_idx>>

\* csv_filename: f"{timestamp}_summary.csv"
CsvFilename == <<"summary">>

\* the loop over results: exceptions and results without success are passed over, every
\* other result is written to its JSON file and appended to csv_summary
RECURSIVE SaveLoop(_, _, _, _)
SaveLoop(rs, i, num_runs, saved_so_far) ==
    IF i > Len(rs) THEN saved_so_far
    ELSE IF IsException(rs[i]) THEN SaveLoop(rs, i + 1, num_runs, saved_so_far)
    ELSE IF ~rs[i].success THEN SaveLoop(rs, i + 1, num_runs, saved_so_far)
    ELSE LET json_filename == JsonFilename(num_runs, rs[i].task_idx, rs[i].run_id)
             combined_report == [task_index |-> rs[i].task_idx, run_id |-> rs[i].run_id,
                                 total_runs |-> num_runs, scores |-> rs[i].scores]
             row == [run_id |-> rs[i].run_id, task_index |-> rs[i].task_idx,
                     scores |-> rs[i].scores, json_file |-> json_filename]
         IN  SaveLoop(rs, i + 1, num_runs,
                      [files |-> [n \in DOMAIN saved_so_far.files \cup {json_filename} |->
                                     IF n = json_filename THEN combined_report ELSE saved_so_far.files[n]],
                       writes |-> saved_so_far.writes + 1,
                       csv_summary |-> Append(saved_so_far.csv_summary, row)])

InitRun ==
    /\ kind = "subjective"
    /\ result = EmptyDict
    /\ edits = 0
    /\ pc = "run"
    /\ form = EmptyDict
    /\ metrics = EmptyDict
    /\ mode = "batch"
    /\ units = <<>>
    /\ sem = MaxConcurrent
    /\ waiters = <<>>
    /\ results = <<>>
    /\ jobs = <<>>
    /\ \E valid \in [Tasks -> BOOLEAN] : \E num_runs \in 1..NumRuns :
          run = [phase |-> "prepared", valid |-> valid, num_runs |-> num_runs,
                 processing_tasks |-> <<>>, outcomes |-> <<>>,
                 files |-> <<>>, writes |-> 0, csv_summary |-> <<>>, csv_path |-> PyNone]
    /\ media = <<>>
    /\ downloads = <<>>

\* process_all_tasks filters the tasks and creates one coroutine per task and run
Dispatch ==
    /\ pc = "run"
    /\ run.phase = "prepared"
    /\ LET processing_tasks == ProcessingTasks(ValidTasks(run.valid, 1), run.num_runs)
       IN  run' = [run EXCEPT !.phase = "dispatched",
                              !.processing_tasks = processing_tasks,
                              !.outcomes = [p \in DOMAIN processing_tasks |-> PyNone]]
    /\ UNCHANGED <<kind, result, edits, pc, form, metrics>>
    /\ UNCHANGED pvars
    /\ UNCHANGED <<media, downloads>>

\* the execution dispatched at position p runs to its end
Complete(p) ==
    /\ pc = "run"
    /\ run.phase = "dispatched"
    /\ p \in DOMAIN run.outcomes
    /\ run.outcomes[p] = PyNone
    /\ \E outcome \in TaskOutcomes(run.processing_tasks[p]) :
          run' = [run EXCEPT !.outcomes[p] = outcome]
    /\ UNCHANGED <<kind, result, edits, pc, form, metrics>>
    /\ UNCHANGED pvars
    /\ UNCHANGED <<media, downloads>>

\* asyncio.gather returns the outcomes in dispatch order; process_all_tasks saves the
\* results and returns the path of the CSV summary
SaveResults ==
    /\ pc = "run"
    /\ run.phase = "dispatched"
    /\ \A p \in DOMAIN run.outcomes : run.outcomes[p] # PyNone
    /\ LET saved == SaveLoop(run.outcomes, 1, run.num_runs,
                             [files |-> <<>>, writes |-> 0, csv_summary |-> <<>>])
       IN  run' = [run EXCEPT
                      !.phase = "saved",
                      !.files = IF saved.csv_summary # <<>>
                                THEN [n \in DOMAIN saved.files \cup {CsvFilename} |->
                                         IF n = CsvFilename THEN saved.csv_summary
                                         ELSE saved.files[n]]
                                ELSE saved.files,
                      !.writes = saved.writes,
                      !.csv_summary = saved.csv_summary,
                      !.csv_path = CsvFilename]
    /\ UNCHANGED <<kind, result, edits, pc, form, metrics>>
    /\ UNCHANGED pvars
    /\ UNCHANGED <<media, downloads>>

NextRun ==
    \/ Dispatch
    \/ \E p \in 1..(NumTasks * NumRuns) : Complete(p)
    \/ SaveResults

\* one run of process_all_tasks
SpecRun == InitRun /\ [][NextRun]_vars

----------------------------------------------------------------------------
(* One stage call that sends the video to the model's file store:          *)
(* run_agent1_sync and run_agent3_sync of the batch processor and          *)
(* run_agent1_bug_hunter of eval.py.                                       *)

Callers == {"agent1", "agent2", "agent3", "bug_hunter"}

\* the states files.upload and files.get report, and a call that raises
FileStates == {"PROCESSING", "ACTIVE", "FAILED", "raise"}

\* a response whose text is no JSON
Unparsable == PyStr(<<"{">>)

\* a response with no parsed value and no text
EmptyText == PyStr(<<>>)

\* result = {"error": "JSON parse failed", "raw": response.text[:500]}
ParseFailed == [error |-> PyStr(<<"J", "S", "O", "N">>), raw |-> Unparsable]

\* result = response.parsed, or json.loads(response.text), or the parse failure
Parsed(response) ==
    IF IsDict(response) THEN response
    ELSE IF response.t = "str" THEN (IF response.s = <<>> THEN PyNone ELSE ParseFailed)
    ELSE response

\* what generate_content comes to for a caller
GenerateCalls(caller) ==
    (IF caller = "agent3" THEN Agent3Calls
     ELSE IF caller = "agent2" THEN Agent2Calls ELSE Agent1Calls) \cup {Unparsable, EmptyText}

\* run_agent3_sync's scoring of a parsed response, tabulated
StageScored ==
    [response \in Agent3Calls \cup {Unparsable, EmptyText} |->
        IF IsException(response) THEN response
        ELSE calculate_deterministic_scores(OrEmptyResponse(Parsed(response)))]

\* run_agent3_sync's validity check of the scored response, tabulated
StageValid ==
    [response \in Agent3Calls \cup {Unparsable, EmptyText} |->
        check_agent3_scores_valid(StageScored[response])]

\* the stage call returns value
Returns(m, value) == [m EXCEPT !.at = "returned", !.value = value]

\* run_agent3_sync goes on to its next attempt
NextAttempt(m) ==
    [m EXCEPT !.at = "upload", !.attempt = m.attempt + 1, !.video_file = 0, !.response = PyNone]

\* an exception inside the stage call: run_agent1_sync and run_agent2_sync return the
\* error dictionary, run_agent3_sync retries or returns it, run_agent1_bug_hunter lets
\* it escape
Except(m) ==
    IF m.caller \in {"agent1", "agent2"} THEN Returns(m, ErrorDict)
    ELSE IF m.caller = "agent3"
    THEN (IF m.attempt = max_retries THEN Returns(m, ErrorDict) ELSE NextAttempt(m))
    ELSE Returns(m, Raised)

\* fault variant of Finish: the parsed response is returned as it is, not scored
Finish_unscored(m) == Returns(m, OrEmptyResponse(Parsed(m.response)))

\* the part of the stage call after files.delete (run_agent2_sync has no file): parse,
\* for run_agent2_sync score, and for run_agent3_sync
\* score, check and return or retry
Finish(m) ==
    IF m.caller = "agent1" THEN Returns(m, OrEmptyResponse(Parsed(m.response)))
    ELSE IF m.caller = "agent2"
    THEN Returns(m, calculate_agent2_scores(OrEmptyResponse(Parsed(m.response))))
    ELSE IF m.caller = "agent3"
    THEN (IF StageValid[m.response] THEN Returns(m, StageScored[m.response])
          ELSE IF m.attempt < max_retries THEN NextAttempt(m)
          ELSE Returns(m, StageScored[m.response]))
    ELSE IF Parsed(m.response) = PyNone
    THEN Returns(m, Put(EmptyResponse, "raw", EmptyText))
    ELSE Returns(m, Parsed(m.response))

\* the loop "while video_file.state.name == PROCESSING" and the FAILED test after it
AfterState(m, state) ==
    IF state = "raise" THEN Except(m)
    ELSE IF state = "PROCESSING" THEN [m EXCEPT !.at = "poll"]
    ELSE IF state = "FAILED" THEN Except(m)
    ELSE [m EXCEPT !.at = "generate"]

InitMedia ==
    /\ kind = "subjective"
    /\ result = EmptyDict
    /\ edits = 0
    /\ pc = "media"
    /\ form = EmptyDict
    /\ metrics = EmptyDict
    /\ mode = "batch"
    /\ units = <<>>
    /\ sem = MaxConcurrent
    /\ waiters = <<>>
    /\ results = <<>>
    /\ jobs = <<>>
    /\ run = <<>>
    /\ \E caller \in Callers :
          media = [caller |-> caller, attempt |-> 1,
                   at |-> IF caller = "agent2" THEN "generate" ELSE "upload", video_file |-> 0,
                   slept |-> 0, remote |-> {}, response |-> PyNone, value |-> PyNone]
    /\ downloads = <<>>

\* video_file = client.files.upload(...): a new file in the store, named after the attempt
Upload ==
    /\ pc = "media"
    /\ media.at = "upload"
    /\ \E state \in FileStates :
          IF state = "raise" THEN media' = Except(media)
          ELSE media' = AfterState([media EXCEPT !.video_file = media.attempt,
                                                 !.remote = media.remote \cup {media.attempt}],
                                   state)
    /\ UNCHANGED <<kind, result, edits, pc, form, metrics>>
    /\ UNCHANGED pvars
    /\ UNCHANGED <<run, downloads>>

\* one turn of the waiting loop: time.sleep, then client.files.get
Poll ==
    /\ pc = "media"
    /\ media.at = "poll"
    /\ \E state \in FileStates :
          media' = AfterState([media EXCEPT !.slept = (media.slept + 1) % 2], state)
    /\ UNCHANGED <<kind, result, edits, pc, form, metrics>>
    /\ UNCHANGED pvars
    /\ UNCHANGED <<run, downloads>>

\* response = client.models.generate_content(...)
Generate ==
    /\ pc = "media"
    /\ media.at = "generate"
    /\ \E call \in GenerateCalls(media.caller) :
          IF IsException(call) THEN media' = Except(media)
          ELSE IF media.caller = "agent2" THEN media' = Finish([media EXCEPT !.response = call])
          ELSE media' = [media EXCEPT !.at = "delete", !.response = call]
    /\ UNCHANGED <<kind, result, edits, pc, form, metrics>>
    /\ UNCHANGED pvars
    /\ UNCHANGED <<run, downloads>>

\* client.files.delete(name=video_file.name), then the rest of the stage call
Delete ==
    /\ pc = "media"
    /\ media.at = "delete"
    /\ \E raises \in BOOLEAN :
          IF raises THEN media' = Except(media)
          ELSE media' = Finish([media EXCEPT !.remote = media.remote \ {media.video_file}])
    /\ UNCHANGED <<kind, result, edits, pc, form, metrics>>
    /\ UNCHANGED pvars
    /\ UNCHANGED <<run, downloads>>

NextMedia ==
    \/ Upload
    \/ Poll
    \/ Generate
    \/ Delete

\* one stage call
SpecMedia == InitMedia /\ [][NextMedia]_vars

\* one stage call that is not left half way: the calling thread keeps running
SpecMediaFair == InitMedia /\ [][NextMedia]_vars /\ WF_vars(NextMedia)

----------------------------------------------------------------------------
(* prepare_tasks: the downloads of the videos named by the input           *)
(* configuration, run side by side, and the local files they leave.        *)

\* the URL strings an input configuration can name
Urls == 1..NumUrls

\* the entries of input_config
Configs == 1..NumConfigs

\* url_to_tasks.keys(): the URL strings of input_config, each once, in order of first use
RECURSIVE UniqueUrls(_, _)
UniqueUrls(input_config, i) ==
    IF i = 0 THEN <<>>
    ELSE LET before == UniqueUrls(input_config, i - 1)
         IN  IF \E j \in DOMAIN before : before[j] = input_config[i] THEN before
             ELSE Append(before, input_config[i])

\* the downloads that are running yt-dlp for the file of video_id
Fetching(d, video_id) ==
    {k \in DOMAIN d.dl : d.dl[k].at = "downloading" /\ d.dl[k].video_id = video_id}

InitDownloads ==
    /\ kind = "subjective"
    /\ result = EmptyDict
    /\ edits = 0
    /\ pc = "downloads"
    /\ form = EmptyDict
    /\ metrics = EmptyDict
    /\ mode = "batch"
    /\ units = <<>>
    /\ sem = MaxConcurrent
    /\ waiters = <<>>
    /\ results = <<>>
    /\ jobs = <<>>
    /\ run = <<>>
    /\ media = <<>>
    /\ \E input_config \in [Configs -> Urls] :
       \E id_of \in {f \in [Urls -> Urls] : \A u \in Urls : f[u] <= u} :
       \E files \in SUBSET {id_of[u] : u \in Urls} :
          downloads = [phase |-> "prepared", input_config |-> input_config, id_of |-> id_of,
                       files |-> files, urls |-> <<>>, dl |-> <<>>,
                       fetches |-> [v \in Urls |-> 0],
                       video_path |-> [c \in Configs |-> 0]]

\* prepare_tasks up to asyncio.gather: one download per URL string
PrepareTasks ==
    /\ pc = "downloads"
    /\ downloads.phase = "prepared"
    /\ LET urls == UniqueUrls(downloads.input_config, NumConfigs)
       IN  downloads' = [downloads EXCEPT
                            !.phase = "downloading",
                            !.urls = urls,
                            !.dl = [k \in DOMAIN urls |->
                                       [at |-> "get_id", video_id |-> 0, value |-> PyNone]]]
    /\ UNCHANGED <<kind, result, edits, pc, form, metrics>>
    /\ UNCHANGED pvars
    /\ UNCHANGED <<run, media>>

\* download_video_async from the end of "yt-dlp --get-id" to its next wait: the id is
\* read, an existing file is returned, otherwise the download is started
GetVideoId(k) ==
    /\ pc = "downloads"
    /\ downloads.phase = "downloading"
    /\ k \in DOMAIN downloads.dl
    /\ downloads.dl[k].at = "get_id"
    /\ \E ok \in BOOLEAN :
          LET video_id == downloads.id_of[downloads.urls[k]]
          IN  IF ~ok
              THEN downloads' = [downloads EXCEPT !.dl[k].at = "returned", !.dl[k].value = Raised]
              ELSE IF video_id \in downloads.files
              THEN downloads' = [downloads EXCEPT !.dl[k].at = "returned",
                                                  !.dl[k].video_id = video_id,
                                                  !.dl[k].value = PyInt(video_id)]
              ELSE downloads' = [downloads EXCEPT !.dl[k].at = "downloading",
                                                  !.dl[k].video_id = video_id,
                                                  !.fetches[video_id] = downloads.fetches[video_id] + 1]
    /\ UNCHANGED <<kind, result, edits, pc, form, metrics>>
    /\ UNCHANGED pvars
    /\ UNCHANGED <<run, media>>

\* download_video_async from the end of the yt-dlp download to its return
DownloadEnds(k) ==
    /\ pc = "downloads"
    /\ downloads.phase = "downloading"
    /\ k \in DOMAIN downloads.dl
    /\ downloads.dl[k].at = "downloading"
    /\ \E ok \in BOOLEAN :
          IF ok
          THEN downloads' = [downloads EXCEPT
                                !.files = downloads.files \cup {downloads.dl[k].video_id},
                                !.dl[k].at = "returned",
                                !.dl[k].value = PyInt(downloads.dl[k].video_id)]
          ELSE downloads' = [downloads EXCEPT !.dl[k].at = "returned", !.dl[k].value = Raised]
    /\ UNCHANGED <<kind, result, edits, pc, form, metrics>>
    /\ UNCHANGED pvars
    /\ UNCHANGED <<run, media>>

\* prepare_tasks after asyncio.gather: the paths are written to the tasks of each URL
MapResults ==
    /\ pc = "downloads"
    /\ downloads.phase = "downloading"
    /\ \A k \in DOMAIN downloads.dl : downloads.dl[k].at = "returned"
    /\ downloads' = [downloads EXCEPT
                        !.phase = "done",
                        !.video_path = [c \in Configs |->
                            LET k == CHOOSE j \in DOMAIN downloads.urls :
                                        downloads.urls[j] = downloads.input_config[c]
                            IN  IF IsException(downloads.dl[k].value) THEN 0
                                ELSE downloads.dl[k].value.n]]
    /\ UNCHANGED <<kind, result, edits, pc, form, metrics>>
    /\ UNCHANGED pvars
    /\ UNCHANGED <<run, media>>

NextDownloads ==
    \/ PrepareTasks
    \/ \E k \in Urls : GetVideoId(k)
    \/ \E k \in Urls : DownloadEnds(k)
    \/ MapResults

\* one call of prepare_tasks
SpecDownloads == InitDownloads /\ [][NextDownloads]_vars

----------------------------------------------------------------------------
(* main: prepare_tasks, then process_all_tasks on the tasks it returns.    *)

\* the input_config entry task t was created from (one task per persona of an entry)
TaskConfig(t) == ((t - 1) % NumConfigs) + 1

\* main passes the tasks of prepare_tasks to process_all_tasks: a task has a video
\* file exactly when the download of its URL returned a path
StartProcessing ==
    /\ pc = "downloads"
    /\ downloads.phase = "done"
    /\ \E num_runs \in 1..NumRuns :
          run' = [phase |-> "prepared",
                  valid |-> [t \in Tasks |-> downloads.video_path[TaskConfig(t)] # 0],
                  num_runs |-> num_runs,
                  processing_tasks |-> <<>>, outcomes |-> <<>>,
                  files |-> <<>>, writes |-> 0, csv_summary |-> <<>>, csv_path |-> PyNone]
    /\ pc' = "run"
    /\ downloads' = <<>>
    /\ UNCHANGED <<kind, result, edits, form, metrics>>
    /\ UNCHANGED pvars
    /\ UNCHANGED media

NextMain ==
    \/ PrepareTasks
    \/ \E k \in Urls : GetVideoId(k)
    \/ \E k \in Urls : DownloadEnds(k)
    \/ MapResults
    \/ StartProcessing
    \/ Dispatch
    \/ \E p \in 1..(NumTasks * NumRuns) : Complete(p)

\* the batch program from the downloads to the end of the executions
SpecMain == InitDownloads /\ [][NextMain]_vars

----------------------------------------------------------------------------
(* What the properties below read from a state.                            *)

ScoreKeys == {"accuracy_score", "logic_score", "score_breakdown", "subjective_scores"}

\* the response as it was reported, without the scores written into it
ReportedFlags == [k \in DOMAIN result \ ScoreKeys |-> result[k]]

ObjectiveScored == kind = "objective" /\ pc # "response" /\ "accuracy_score" \in DOMAIN result

SubjectiveScored == kind = "subjective" /\ pc # "response" /\ "subjective_scores" \in DOMAIN result

StoredAccuracy == result["accuracy_score"].n

StoredLogic == result["logic_score"].n

StoredAdaptability == result["subjective_scores"]["adaptability"].score.n

StoredEngagement == result["subjective_scores"]["engagement"].score.n

\* the level or count a response reports at a path; 0 when it reports none
ReportedAt(r, path) == IF HasPath(r, path) THEN GetPath(r, path).n ELSE 0

PureCalcLevel == ReportedAt(result, <<"pedagogical_depth", "pure_calculation_bias_level">>)

BrevityLevel == ReportedAt(result, <<"completeness", "content_brevity_level">>)

\* the flow label of the response: the judge's assessment, else the overview's label
ReportedFlow ==
    IF HasPath(result, <<"logic_flags", "logic_flow_assessment">>)
    THEN GetPath(result, <<"logic_flags", "logic_flow_assessment">>).s
    ELSE IF HasPath(result, <<"content_overview", "logic_flow">>)
         THEN GetPath(result, <<"content_overview", "logic_flow">>).s
         ELSE <<>>

\* the judge's label for a formula-before-concept flow, in the spellings a response uses
FormulaBeforeConcept ==
    ReportedFlow \in {formula_to_solving,
                      <<"F", "o", "r", "m", "u", "l", "a", "-", "T", "o", "-", "S", "o", "l", "v", "i", "n", "g">>}

\* the tightest ceiling of accuracy: 5.0, 3.5 for pure-calc-bias >= 2, 2.0 for brevity = 3
AccuracyCeiling ==
    Min(IF PureCalcLevel >= 2 THEN 3500 ELSE 5000, IF BrevityLevel = 3 THEN 2000 ELSE 5000)

\* the tightest ceiling of logic: that of accuracy, and 3.0 for a formula-before-concept flow
LogicCeiling == Min(AccuracyCeiling, IF FormulaBeforeConcept THEN 3000 ELSE 5000)

\* the shared pedagogical-depth and completeness penalties
SharedPenalties ==
    fd(result) + pc_pen(result) + dg(result) + cb(result) + sc(result) + mc(result) + bw(result)

\* the standard, monotone and disconnect presets as the specification states them
StandardPreset(level) == <<0, 300, 600, 1000>>[Min(level, 3) + 1]

MonotonePreset(level) == <<0, 500, 1000, 1500>>[Min(level, 3) + 1]

DisconnectPreset(level) == <<0, 500, 1000, 1500>>[Min(level, 3) + 1]

Clamp(x, lo, hi) == Max(lo, Min(hi, x))

AdaptabilityLevel(name) == ReportedAt(result, <<"audit_log", "adaptability_flags", name>>)

EngagementLevel(name) == ReportedAt(result, <<"audit_log", "engagement_flags", name>>)

\* the flag groups of a subjective response hold nothing but the keys in `allowed`
OnlyFlags(allowed) ==
    /\ DOMAIN audit_log(result) \subseteq {"adaptability_flags", "engagement_flags"}
    /\ DOMAIN adaptability_flags(result) \subseteq allowed
    /\ DOMAIN Get(audit_log(result), "engagement_flags", EmptyDict) \subseteq allowed

LevelKeys == {p[3] : p \in SubjLevelPaths}

----------------------------------------------------------------------------
(* Properties.                                                             *)

\* C1: the accuracy and the logic of a scored objective response are never below 1.0
\* and never above the tightest applicable ceiling: 5.0, 3.5 when pure-calc-bias >= 2,
\* 2.0 when brevity = 3, and for logic also 3.0 when the flow is formula_to_solving.
ObjectiveScoresWithinCeiling ==
    ObjectiveScored =>
        /\ StoredAccuracy >= 1000 /\ StoredAccuracy <= AccuracyCeiling
        /\ StoredLogic >= 1000 /\ StoredLogic <= LogicCeiling

\* a response with pure-calc-bias 2 and no brevity 3 whose accuracy sits on the 3.5 ceiling,
\* its logic on the 3.0 flow ceiling
CeilingReached ==
    /\ ObjectiveScored
    /\ PureCalcLevel = 2 /\ BrevityLevel # 3 /\ FormulaBeforeConcept
    /\ StoredAccuracy = 3500 /\ StoredLogic = 3000

\* C2: the adaptability and the engagement of a scored subjective response lie in [0.0, 5.0].
SubjectiveScoresInRange ==
    SubjectiveScored =>
        /\ StoredAdaptability >= 0 /\ StoredAdaptability <= 5000
        /\ StoredEngagement >= 0 /\ StoredEngagement <= 5000

\* a response whose deductions use up the whole 5.0 of both scores
BothScoresAtZero ==
    /\ SubjectiveScored
    /\ AdaptabilityLevel("jargon_overload_level") = 3
    /\ EngagementLevel("monotone_audio_level") = 3
    /\ StoredAdaptability = 0 /\ StoredEngagement = 0

\* C3: the review form's calculate_accuracy and calculate_logic return the accuracy and
\* the logic that _calculate_agent2_scores computed for the same flag values.
DualSourceObjective ==
    (kind = "objective" /\ pc = "reviewed") =>
        /\ metrics.accuracy = StoredAccuracy
        /\ metrics.logic = StoredLogic

\* C4: for a subjective response that reports integer levels only, the review form's
\* calculate_adaptability and calculate_engagement return the adaptability and the
\* engagement that _calculate_deterministic_scores computed for the same levels.
DualSourceSubjective ==
    (kind = "subjective" /\ pc = "reviewed" /\ OnlyFlags(LevelKeys)) =>
        /\ metrics.adaptability = StoredAdaptability
        /\ metrics.engagement = StoredEngagement

\* a reviewed response of levels only, with deductions on both scores
LevelsReviewed ==
    /\ kind = "subjective" /\ pc = "reviewed" /\ OnlyFlags(LevelKeys)
    /\ AdaptabilityLevel("visual_accessibility_level") = 3
    /\ EngagementLevel("monotone_audio_level") = 2
    /\ metrics.adaptability < 5000 /\ metrics.engagement < 5000

\* C5: accuracy = min(ceiling, max(1.0, 5.0 - S - 0.5 * critical errors - 0.2 * minor
\* slips)), S the preset penalties of the nine accuracy flags; the flow label and the
\* logic-only counts play no part; pure-calc-bias 2 alone gives 3.5, three critical
\* errors with two minor slips alone give 3.1.
AccuracyFormula ==
    ObjectiveScored =>
        /\ StoredAccuracy =
              Min(AccuracyCeiling,
                  Max(1000, 5000 - (SharedPenalties + tm(result) + va(result))
                                  - 500 * ReportedAt(result, <<"accuracy_flags", "critical_fact_error_count">>)
                                  - 200 * ReportedAt(result, <<"accuracy_flags", "minor_slip_count">>)))
        /\ ReportedFlags = [pedagogical_depth |-> [pure_calculation_bias_level |-> PyInt(2)]]
              => StoredAccuracy = 3500
        /\ ReportedFlags = [accuracy_flags |-> [critical_fact_error_count |-> PyInt(3),
                                                minor_slip_count |-> PyInt(2)]]
              => StoredAccuracy = 3100

\* three critical errors and two minor slips alone, scored 3.1
ErrorsAndSlipsScored ==
    /\ ObjectiveScored
    /\ ReportedFlags = [accuracy_flags |-> [critical_fact_error_count |-> PyInt(3),
                                            minor_slip_count |-> PyInt(2)]]
    /\ StoredAccuracy = 3100

VisualPenaltyStated ==
    LET af == adaptability_flags(result)
        type == StrLower(Get(af, "accessibility_issue_type", PyStr(<<>>)).s)
    IN  IF "visual_accessibility_level" \in DOMAIN af
        THEN Min(1000, StandardPreset(af["visual_accessibility_level"].n)
                       + (IF StrContains(signaling, type) THEN 500 ELSE 0))
        ELSE IF type = signaling THEN 500 ELSE 0

\* C7: adaptability = clamp(5.0 - the standard penalties of jargon overload, prerequisite
\* gap, pacing mismatch and missing scaffolding - V, 0.0, 5.0), V the visual-accessibility
\* penalty: 0 / 0.3 / 0.6 / 1.0 by level, plus 0.5 for a signaling issue type up to 1.0,
\* and a flat 0.5 for a signaling issue type without a level.
AdaptabilityFormula ==
    (SubjectiveScored /\ OnlyFlags(LevelKeys \cup {"accessibility_issue_type"})) =>
        StoredAdaptability =
            Clamp(5000 - StandardPreset(AdaptabilityLevel("jargon_overload_level"))
                       - StandardPreset(AdaptabilityLevel("prerequisite_gap_level"))
                       - StandardPreset(AdaptabilityLevel("pacing_mismatch_level"))
                       - StandardPreset(AdaptabilityLevel("missing_scaffolding_level"))
                       - VisualPenaltyStated,
                  0, 5000)

\* C8: engagement = clamp(5.0 - monotone preset (0.5 / 1.0 / 1.5) of monotone audio
\* - standard preset (0.3 / 0.6 / 1.0) of AI-generated fatigue - standard preset of visual
\* clutter - disconnect preset (0.5 / 1.0 / 1.5) of the disconnect, 0.0, 5.0), for every
\* combination of levels.
EngagementFormula ==
    (SubjectiveScored /\ OnlyFlags(LevelKeys \cup {"accessibility_issue_type"})) =>
        StoredEngagement =
            Clamp(5000 - MonotonePreset(EngagementLevel("monotone_audio_level"))
                       - StandardPreset(EngagementLevel("ai_generated_fatigue_level"))
                       - StandardPreset(EngagementLevel("visual_clutter_level"))
                       - DisconnectPreset(EngagementLevel("disconnect_level")),
                  0, 5000)

\* monotone audio at 2 and a disconnect at 1 beside the severe fatigue and clutter
MixedEngagementScored ==
    /\ SubjectiveScored /\ OnlyFlags(LevelKeys \cup {"accessibility_issue_type"})
    /\ EngagementLevel("monotone_audio_level") = 2
    /\ EngagementLevel("disconnect_level") = 1
    /\ EngagementLevel("ai_generated_fatigue_level") = 3
    /\ StoredEngagement = 1500

\* the four scores a scored result holds
Scores(r) ==
    IF "subjective_scores" \in DOMAIN r
    THEN <<r["subjective_scores"]["adaptability"].score, r["subjective_scores"]["engagement"].score>>
    ELSE <<r["accuracy_score"], r["logic_score"]>>

\* C9: scoring a result that was already scored, its misplaced flag already moved by the
\* first call, yields the accuracy, logic, adaptability and engagement of the first call.
RescoringKeepsScores ==
    [][(pc = "scored" /\ pc' = "rescored") => Scores(result') = Scores(result)]_vars

\* a result scored twice whose leaked fatigue flag the first call moved into
\* engagement_flags, where it is charged
RelocatedFlagRescored ==
    /\ pc = "rescored" /\ SubjectiveScored
    /\ "ai_generated_fatigue" \notin DOMAIN audit_log(result)
    /\ "ai_fatigue_evidence" \in DOMAIN Get(audit_log(result), "engagement_flags", EmptyDict)
    /\ Get(audit_log(result), "engagement_flags", EmptyDict)["ai_generated_fatigue"] = PyBool(TRUE)
    /\ StoredEngagement = 4400

\* the level flags charged by a preset: every objective level, and the subjective levels
\* but visual accessibility
PresetPaths ==
    ObjLevelPaths \cup (SubjLevelPaths \ {<<"audit_log", "adaptability_flags", "visual_accessibility_level">>})

\* the penalty the engine charges response r for the flag at `path`
PresetCharge(r, path) ==
    IF path \in ObjLevelPaths
    THEN CASE path[2] = "formula_dumping_level" -> fd(r)
           [] path[2] = "pure_calculation_bias_level" -> pc_pen(r)
           [] path[2] = "pedagogical_depth_gap_level" -> dg(r)
           [] path[2] = "content_brevity_level" -> cb(r)
           [] path[2] = "superficial_coverage_level" -> sc(r)
           [] path[2] = "missing_core_concepts_level" -> mc(r)
           [] path[2] = "breadth_without_depth_level" -> bw(r)
           [] path[2] = "title_content_mismatch_level" -> tm(r)
           [] OTHER -> va(r)
    ELSE LET sev == GetPath(r, path)
         IN  CASE path[3] = "monotone_audio_level" -> calculate_penalty_monotone(sev)
               [] path[3] = "disconnect_level" -> calculate_penalty_disconnect(sev)
               [] OTHER -> calculate_penalty(sev)

\* C10: for every preset the engine charges and every level L in 0..3, penalty(L) is at
\* least penalty(L - 1), and penalty(0) = 0: in a scored response, a flag at level 0 is
\* charged 0 and a flag at level L >= 1 at least what it is charged at level L - 1.
PenaltyMonotone ==
    pc = "scored" =>
        \A path \in PresetPaths :
            HasPath(result, path) =>
                LET level == GetPath(result, path).n
                IN  /\ level = 0 => PresetCharge(result, path) = 0
                    /\ level >= 1 =>
                          PresetCharge(result, path)
                            >= PresetCharge(PutPath(result, path, PyInt(level - 1)), path)

\* a visual alignment issue at level 1, charged the same 0.0 as level 0, beside a title
\* mismatch at level 3 charged 2.0
EqualAndRisingPenalties ==
    /\ kind = "objective" /\ pc = "scored"
    /\ ReportedAt(result, <<"accuracy_flags", "visual_alignment_issue_level">>) = 1
    /\ va(result) = 0
    /\ ReportedAt(result, <<"accuracy_flags", "title_content_mismatch_level">>) = 3
    /\ tm(result) = 2000

\* subjective_scores of the result holds the number 0 for `name`, as a score entry or directly
ZeroScore(name) ==
    LET ss == Get(result, "subjective_scores", EmptyDict)
    IN  /\ IsDict(ss)
        /\ name \in DOMAIN ss
        /\ IF IsDict(ss[name])
           THEN "score" \in DOMAIN ss[name] /\ ~IsDict(ss[name].score)
                /\ ss[name].score.t \in {"int", "float", "bool"} /\ ss[name].score.n = 0
           ELSE ss[name].t \in {"int", "float", "bool"} /\ ss[name].n = 0

\* C11: the validity check reports a subjective result as invalid exactly when
\* adaptability and engagement are both 0; one zero alone is valid, and a result whose
\* structure cannot be inspected is valid.
InvalidExactlyWhenBothZero ==
    pc = "checked" =>
        (metrics.valid = FALSE <=> (ZeroScore("adaptability") /\ ZeroScore("engagement")))

\* a checked result with adaptability 0 and engagement above 0, reported valid
OneZeroIsValid ==
    /\ pc = "checked"
    /\ ZeroScore("adaptability") /\ ~ZeroScore("engagement")
    /\ IsDict(result["subjective_scores"]["engagement"])
    /\ result["subjective_scores"]["engagement"].score.n > 0
    /\ metrics.valid = TRUE

\* C12: when computing the scores raises, the scoring function still returns and the
\* scores it was computing are the fallback 3.0, whatever score the input already held.
FallbackOnException ==
    /\ (kind = "objective" /\ pc = "scored" /\ Agent2Raises(result)) =>
          /\ Get(result, "accuracy_score", PyNone) = PyFloat(3000)
          /\ Get(result, "logic_score", PyNone) = PyFloat(3000)
    /\ (kind = "subjective" /\ pc = "scored" /\ SubjectiveRaises(result)) =>
          /\ ~CheckRaises(result)
          /\ ScoreOf(Get(Get(result, "subjective_scores", EmptyDict), "adaptability", EmptyDict))
                = PyFloat(3000)
          /\ ScoreOf(Get(Get(result, "subjective_scores", EmptyDict), "engagement", EmptyDict))
                = PyFloat(3000)

\* the keys under which a response can report one and the same subjective flag
FlagEncodings ==
    {{<<"audit_log", "adaptability_flags", "jargon_overload_level">>,
      <<"audit_log", "adaptability_flags", "jargon_overload">>},
     {<<"audit_log", "adaptability_flags", "prerequisite_gap_level">>,
      <<"audit_log", "adaptability_flags", "prerequisite_gap">>},
     {<<"audit_log", "adaptability_flags", "pacing_mismatch_level">>,
      <<"audit_log", "adaptability_flags", "pacing_mismatch">>},
     {<<"audit_log", "adaptability_flags", "missing_scaffolding_level">>,
      <<"audit_log", "adaptability_flags", "missing_scaffolding">>},
     {<<"audit_log", "adaptability_flags", "visual_accessibility_level">>,
      <<"audit_log", "adaptability_flags", "visual_accessibility_issue">>},
     {<<"audit_log", "engagement_flags", "monotone_audio_level">>,
      <<"audit_log", "engagement_flags", "monotone_audio">>},
     {<<"audit_log", "engagement_flags", "ai_generated_fatigue_level">>,
      <<"audit_log", "engagement_flags", "ai_generated_fatigue">>,
      <<"audit_log", "ai_generated_fatigue">>},
     {<<"audit_log", "engagement_flags", "visual_clutter_level">>,
      <<"audit_log", "engagement_flags", "visual_clutter">>},
     {<<"audit_log", "engagement_flags", "disconnect_level">>,
      <<"audit_log", "engagement_flags", "disconnect">>}}

\* the other keys under which a response can report the flag at `path`
Twins(path) == UNION {e \in FlagEncodings : path \in e} \ {path}

\* the flags a response reports as a level, a count or a boolean
NumericPaths == ObjLevelPaths \cup ObjCountPaths \cup SubjLevelPaths \cup SubjLegacyPaths

\* the flags reported at 0 (or false) under no other key
ZeroFlags(r) ==
    {path \in NumericPaths :
        HasPath(r, path) /\ GetPath(r, path).n = 0 /\ \A q \in Twins(path) : ~HasPath(r, q)}

\* the flag groups that hold nothing but flags reported at 0, zero being those flags
ZeroGroups(r, zero) ==
    {g \in GroupPaths(kind) :
        IF HasPath(r, g) THEN \A f \in DOMAIN GetPath(r, g) : g \o <<f>> \in zero ELSE FALSE}

\* the scores the engine computes for response r
ScoresOf(r) ==
    IF kind = "objective" THEN Scores(calculate_agent2_scores(r))
    ELSE Scores(calculate_deterministic_scores(r))

\* the engine's computation raises on response r
ScoringRaises(r) == IF kind = "objective" THEN Agent2Raises(r) ELSE SubjectiveRaises(r)

\* no flag of the response is above 0, and it holds no flow label or issue type
AllZero(r) ==
    \A path \in FlagPaths(kind) : HasPath(r, path) => (path \in NumericPaths /\ GetPath(r, path).n = 0)

\* C13: a missing flag contributes what a level-0 flag contributes: a scored response
\* scores the same with any of its level-0 flags, or any group of them, removed; the
\* engine does not fail on the missing flag; an empty or all-zero response scores 5.0 on
\* every dimension.
MissingIsLevelZero ==
    pc = "scored" =>
        LET flags == ReportedFlags
            zero == ZeroFlags(flags)
        IN  /\ \A path \in zero \cup ZeroGroups(flags, zero) :
                  LET without == DelPath(flags, path)
                  IN  /\ ~ScoringRaises(without)
                      /\ ScoresOf(without) = Scores(result)
            /\ AllZero(flags) => Scores(result) = <<PyFloat(5000), PyFloat(5000)>>

\* a scored response with deductions, one of its flags at level 0
ZeroFlagBesideDeduction ==
    /\ pc = "scored" /\ kind = "objective"
    /\ <<"completeness", "content_brevity_level">> \in ZeroFlags(ReportedFlags)
    /\ <<"completeness">> \notin ZeroGroups(ReportedFlags, ZeroFlags(ReportedFlags))
    /\ StoredAccuracy < 5000

\* a stage's result is the error dictionary of a failed stage
HasError(r) == IF IsDict(r) THEN "error" \in DOMAIN r ELSE FALSE

\* the executions that are inside Stage A, B or C
Inside == {e \in Execs : units[e].stage \in {"A", "B", "C", "extract"}}

\* the executions that were launched and have not been admitted yet
AwaitingPermit(e) == units[e].stage \in {"launched", "waiting"}

\* execution e ended without a result of its own: it failed or it raised
EndedInFailure(u) ==
    /\ u.stage = "done"
    /\ IF IsException(u.outcome) THEN TRUE ELSE ~u.outcome.success

\* a Stage C result whose adaptability and engagement are both 0
ZeroResult(r) ==
    IF ~IsDict(r) THEN FALSE
    ELSE IF "subjective_scores" \notin DOMAIN r THEN FALSE
    ELSE /\ r["subjective_scores"]["adaptability"].score.n = 0
         /\ r["subjective_scores"]["engagement"].score.n = 0

\* C14: a unit whose Stage A or Stage B failed goes straight to Failed: no later stage
\* runs for it, and it is reported with success = false and without scores.
StageFailureFailsUnit ==
    \A e \in Execs :
        /\ units[e].stage \in {"B", "C", "extract"} => ~HasError(units[e].agent1_result)
        /\ units[e].stage \in {"C", "extract"} => ~HasError(units[e].agent2_result)
        /\ (units[e].stage = "done" /\ IsDict(units[e].outcome)) =>
              (units[e].outcome.success =>
                  /\ ~HasError(units[e].outcome.agent1_result)
                  /\ ~HasError(units[e].outcome.agent2_result))

\* C15: within one execution Stage A, B and C run in this order, none skipped: Stage B
\* starts only when Stage A of the execution has returned its result, Stage C only when
\* Stage B has, and a result is built only after Stage C.
StagesInOrder ==
    [][\A e \in Execs :
          /\ (units'[e].stage = "A" /\ units[e].stage # "A") =>
                /\ units[e].stage \in {"idle", "launched", "waiting"}
                /\ units'[e].agent1_result = PyNone
          /\ (units'[e].stage = "B" /\ units[e].stage # "B") =>
                /\ units[e].stage = "A"
                /\ IsDict(units'[e].agent1_result)
                /\ units'[e].agent2_result = PyNone
          /\ (units'[e].stage = "C" /\ units[e].stage # "C") =>
                /\ units[e].stage = "B"
                /\ IsDict(units'[e].agent2_result)
                /\ units'[e].agent3_result = PyNone
          /\ (units'[e].stage = "extract" /\ units[e].stage # "extract") =>
                units[e].stage = "C"
          /\ (units'[e].stage = "done" /\ units[e].stage # "done" /\ IsDict(units'[e].outcome)) =>
                units[e].stage = "extract"]_vars

\* an execution in Stage C that holds the results of its Stages A and B
StageCAfterAAndB ==
    \E e \in Execs :
        /\ units[e].stage = "C"
        /\ IsDict(units[e].agent1_result) /\ IsDict(units[e].agent2_result)

\* C16: the executions inside Stage A, B or C are never more than max_concurrent,
\* however many were launched, in a batch and among the jobs of the server.
AtMostMaxConcurrentInside == Cardinality(Inside) <= MaxConcurrent

\* the server runs max_concurrent jobs while a further job waits for a permit
ServerJobWaitsAtLimit ==
    /\ mode = "server"
    /\ Cardinality(Inside) = MaxConcurrent
    /\ waiters # <<>>
    /\ \A e \in Execs : StatusOf(jobs[e]) = "processing"

\* C17: an execution holds exactly one permit from before its Stage A to the end of its
\* Stage C or its failure, and returns it on every exit path: the permits left and the
\* executions inside the stages always add up to max_concurrent; every launched
\* execution is eventually admitted; once all have ended every permit is available.
PermitHeldAndReturned ==
    /\ [](sem >= 0 /\ sem + Cardinality(Inside) = MaxConcurrent)
    /\ []((\A e \in Execs : units[e].stage \in {"idle", "done"}) => sem = MaxConcurrent)
    /\ \A e \in Execs : AwaitingPermit(e) ~> ~AwaitingPermit(e)

\* every permit is taken by executions in their stages while another execution waits
PermitHeldAcrossStages ==
    /\ sem = 0
    /\ waiters # <<>>
    /\ \E e \in Execs : units[e].stage = "C" /\ units[e].attempt = 2

\* C18: an execution that fails or raises changes no other execution, every launched
\* execution still comes to its own end, and the joint await returns one outcome per
\* launched execution, each execution's own.
SiblingsUnaffected ==
    /\ [][\A e \in Execs :
             (EndedInFailure(units'[e]) /\ units[e].stage # "done") =>
                 \A f \in Execs \ {e} : units'[f] = units[f]]_vars
    /\ [](results # <<>> =>
             /\ DOMAIN results = Execs
             /\ \A e \in Execs : results[e] = units[e].outcome)
    /\ \A e \in Execs : (units[e].stage # "idle") ~> (units[e].stage = "done")

\* the joint await returned a failure, an exception or both beside a success
GatherHoldsFailureAndSuccess ==
    /\ results # <<>>
    /\ \E e \in Execs : EndedInFailure(units[e])
    /\ \E e \in Execs : IF IsDict(results[e]) THEN results[e].success ELSE FALSE

\* C19: Stage C makes at most 2 attempts, and it makes the second one only when the
\* first raised or gave a result whose adaptability and engagement are both 0.
AtMostTwoAttempts ==
    \A e \in Execs :
        /\ units[e].attempt <= 2
        /\ units[e].attempt = 2 =>
              \/ units[e].final_result = PyNone
              \/ ZeroResult(units[e].final_result)

\* a second attempt is under way after a first one that gave zero scores
SecondAttemptAfterZero ==
    \E e \in Execs :
        /\ units[e].stage = "C"
        /\ units[e].attempt = 2
        /\ ZeroResult(units[e].final_result)

\* C20: a Stage C result that is still zero on both scores when Stage C returns it is
\* delivered with its scores: the unit's outcome is a success that carries that result
\* and reports adaptability 0 and engagement 0.
ZeroResultDelivered ==
    [][\A e \in Execs :
          (units[e].stage = "extract" /\ ZeroResult(units[e].agent3_result)
             /\ units'[e].stage = "done") =>
              /\ IsDict(units'[e].outcome)
              /\ units'[e].outcome.success
              /\ units'[e].outcome.agent3_result = units[e].agent3_result
              /\ units'[e].outcome.scores.adaptability.n = 0
              /\ units'[e].outcome.scores.engagement.n = 0]_vars

\* a unit delivered as a success with adaptability 0 and engagement 0
ZeroScoresDelivered ==
    \E e \in Execs :
        /\ units[e].stage = "done"
        /\ IsDict(units[e].outcome)
        /\ units[e].outcome.success
        /\ ZeroResult(units[e].outcome.agent3_result)
        /\ units[e].outcome.scores.adaptability = PyFloat(0)
        /\ units[e].outcome.scores.engagement = PyFloat(0)

\* every attempt of the Stage C call that execution u has behind it raised
\* run_agent3_sync returns for unit e: the step from Stage C to the extraction of scores
Agent3Returns(e) == units[e].stage = "C" /\ units'[e].stage = "extract"

\* what process_single_task delivers for the result run_agent3_sync returns in this step
Delivered(e) ==
    TaskResult(units[e].agent1_result, units[e].agent2_result, units'[e].agent3_result)

\* the unit is delivered with what process_single_task builds from its stage results
DeliversTaskResult(e) ==
    (units[e].stage = "extract" /\ units'[e].stage = "done") =>
        units'[e].outcome = TaskResult(units[e].agent1_result, units[e].agent2_result,
                                       units[e].agent3_result)

\* C21: an exception in a Stage C attempt uses up one attempt, and the unit is failed
\* because of Stage C exactly when every attempt raised: then it is reported failed,
\* and when an attempt returned a scored result it is not.
FailedByStageCWhenAllRaised ==
    [][\A e \in Execs :
          /\ Agent3Returns(e) =>
                /\ units[e].attempt <= max_retries
                /\ (units[e].final_result = PyNone /\ HasError(units'[e].agent3_result)) =>
                       ~Delivered(e).success
                /\ (IsDict(units'[e].agent3_result) /\ ~HasError(units'[e].agent3_result)) =>
                       Delivered(e).success
          /\ DeliversTaskResult(e)]_vars

\* a Stage C result that carries scores, not both of them 0
ValidResult(r) ==
    IF ~IsDict(r) THEN FALSE
    ELSE IF "subjective_scores" \notin DOMAIN r THEN FALSE
    ELSE ~ZeroResult(r)

\* C22: when the first Stage C attempt gives adaptability 0 and engagement 0 and the
\* second a valid result, Stage C hands back the second result, not the first, and the
\* unit is delivered with the adaptability and engagement of that result.
SecondAttemptDelivered ==
    [][\A e \in Execs :
          /\ (/\ Agent3Returns(e)
              /\ units[e].attempt = 2
              /\ ZeroResult(units[e].final_result)
              /\ ValidResult(units'[e].agent3_result)) =>
                 /\ units'[e].agent3_result # units[e].final_result
                 /\ Delivered(e).success
                 /\ Delivered(e).agent3_result = units'[e].agent3_result
                 /\ Delivered(e).scores.adaptability
                       = units'[e].agent3_result["subjective_scores"]["adaptability"].score
                 /\ Delivered(e).scores.adaptability.n > 0
                 /\ Delivered(e).scores.engagement
                       = units'[e].agent3_result["subjective_scores"]["engagement"].score
          /\ DeliversTaskResult(e)]_vars

\* the second Stage C attempt of a unit is under way after a first attempt that gave
\* adaptability 0 and engagement 0
SecondAttemptAfterZeroScores ==
    \E e \in Execs :
        /\ units[e].stage = "C"
        /\ units[e].attempt = 2
        /\ ZeroResult(units[e].final_result)
        /\ \E call \in Agent3Calls :
              /\ attempt_returns(2, call)
              /\ ValidResult(attempt_value(call))

\* the keys under which a result could record that Stage C was retried
RetryKeys == {"retry", "retried", "retry_count", "attempts", "attempt"}

\* the delivered result o records a retry, in itself or in the Stage C result it carries
RetryRecorded(o) ==
    \/ DOMAIN o \cap RetryKeys # {}
    \/ IF IsDict(o.agent3_result) THEN DOMAIN o.agent3_result \cap RetryKeys # {} ELSE FALSE

\* C23: a unit whose Stage C needed more than one attempt is delivered with a record
\* that a retry occurred.
RetryIsRecorded ==
    [][\A e \in Execs :
          /\ (Agent3Returns(e) /\ units[e].attempt > 1 /\ Delivered(e).success) =>
                 RetryRecorded(Delivered(e))
          /\ DeliversTaskResult(e)]_vars

\* the positions of processing_tasks
Launched == DOMAIN run.processing_tasks

\* the executions that ended without a successful result
FailedExecutions ==
    {p \in Launched : IF IsDict(run.outcomes[p]) THEN ~run.outcomes[p].success ELSE TRUE}

\* the executions that ended with a successful result
SucceededExecutions == Launched \ FailedExecutions

\* C24: once the results are saved, the tabular summary holds one row for every
\* launched execution, the failed ones included, so that the rows of succeeded and
\* failed executions add up to the number launched.
EveryExecutionReported ==
    run # <<>> =>
        (run.phase = "saved" =>
            /\ Len(run.csv_summary) = Cardinality(Launched)
            /\ \A p \in Launched :
                  \E i \in DOMAIN run.csv_summary :
                     /\ run.csv_summary[i].task_index = run.processing_tasks[p].task_idx
                     /\ run.csv_summary[i].run_id = run.processing_tasks[p].run_id)

\* C25: the path process_all_tasks returns always names a file that was written,
\* also when no execution succeeded.
ReturnedPathIsWritten ==
    run # <<>> =>
        (run.phase = "saved" => run.csv_path \in DOMAIN run.files)

\* the tasks whose video file exists
WithVideo == {t \in Tasks : run.valid[t]}

\* the positions process_all_tasks dispatches, taken in the state dispatch leads to
LaunchedNext == DOMAIN run'.processing_tasks

\* C28: dispatch launches every task with a valid video exactly num_runs times and
\* no other task, under pairwise distinct (task index, run_id) pairs; afterwards the
\* list of executions stays as dispatched, and an execution that ends leaves the
\* outcome of every other execution as it was.
ExecutedNumRunsTimes ==
    [][IF run = <<>> THEN TRUE
       ELSE IF run.phase = "prepared"
       THEN run'.phase # "prepared" =>
               /\ Cardinality(LaunchedNext) = Cardinality(WithVideo) * run.num_runs
               /\ \A t \in Tasks : \A r \in 1..run.num_runs :
                     Cardinality({p \in LaunchedNext :
                                     /\ run'.processing_tasks[p].task = t
                                     /\ run'.processing_tasks[p].run_id = r})
                         = IF t \in WithVideo THEN 1 ELSE 0
               /\ \A p \in LaunchedNext : run'.processing_tasks[p].run_id \in 1..run.num_runs
               /\ \A p, q \in LaunchedNext :
                     p # q => <<run'.processing_tasks[p].task_idx, run'.processing_tasks[p].run_id>>
                                 # <<run'.processing_tasks[q].task_idx, run'.processing_tasks[q].run_id>>
               /\ \A p, q \in LaunchedNext :
                     (run'.processing_tasks[p].task = run'.processing_tasks[q].task)
                         <=> (run'.processing_tasks[p].task_idx = run'.processing_tasks[q].task_idx)
       ELSE /\ run'.processing_tasks = run.processing_tasks
            /\ run'.valid = run.valid
            /\ run'.num_runs = run.num_runs
            /\ \A q \in Launched :
                  run.outcomes[q] # PyNone => run'.outcomes[q] = run.outcomes[q]]_vars

\* two runs of one task have ended, one with a successful result and one without
RunsOfOneTaskDiffer ==
    /\ run # <<>>
    /\ run.phase = "dispatched"
    /\ run.num_runs > 1
    /\ Cardinality(WithVideo) > 1
    /\ \E p, q \in Launched :
          /\ run.processing_tasks[p].task = run.processing_tasks[q].task
          /\ run.processing_tasks[p].run_id # run.processing_tasks[q].run_id
          /\ run.outcomes[p] # PyNone
          /\ run.outcomes[q] # PyNone
          /\ p \in SucceededExecutions
          /\ q \in FailedExecutions

\* the JSON files among the files written
JsonFiles == DOMAIN run.files \ {CsvFilename}

\* C29: the result of every execution carries the task index and run_id it was
\* dispatched with, whatever the order in which the executions ended; every
\* successful execution is saved in the file named after that pair, the file and
\* its summary row hold that pair, and no file is written twice in one run.
FileNamedAtDispatch ==
    run # <<>> =>
        /\ \A p \in Launched :
              (run.outcomes[p] # PyNone /\ ~IsException(run.outcomes[p])) =>
                  /\ run.outcomes[p].task_idx = run.processing_tasks[p].task_idx
                  /\ run.outcomes[p].run_id = run.processing_tasks[p].run_id
        /\ run.phase = "saved" =>
              /\ \A p \in SucceededExecutions :
                    LET name == JsonFilename(run.num_runs, run.processing_tasks[p].task_idx,
                                             run.processing_tasks[p].run_id)
                    IN  /\ name \in JsonFiles
                        /\ run.files[name].task_index = run.processing_tasks[p].task_idx
                        /\ run.files[name].run_id = run.processing_tasks[p].run_id
                        /\ \E i \in DOMAIN run.csv_summary :
                              /\ run.csv_summary[i].json_file = name
                              /\ run.csv_summary[i].task_index = run.processing_tasks[p].task_idx
                              /\ run.csv_summary[i].run_id = run.processing_tasks[p].run_id
              /\ Cardinality(JsonFiles) = Cardinality(SucceededExecutions)
              /\ run.writes = Cardinality(JsonFiles)

\* the results of two successful runs of one task are saved
TwoRunsOfOneTaskSaved ==
    /\ run # <<>>
    /\ run.phase = "saved"
    /\ \E p, q \in SucceededExecutions :
          /\ p # q
          /\ run.processing_tasks[p].task_idx = run.processing_tasks[q].task_idx
          /\ Cardinality(JsonFiles) >= 2

\* C26: when a stage call returns, every file it uploaded has been deleted from the
\* store, whichever way the call ended.
UploadsDeleted ==
    media # <<>> =>
        (media.at = "returned" => media.remote = {})

\* C27: the wait for the uploaded file is bounded, so that every stage call returns,
\* also when the store reports PROCESSING at every poll.
StageCallReturns ==
    <>(media # <<>> /\ media.at = "returned")

\* C30: a video is fetched at most once, and no two downloads write the file of one
\* video at the same time.
FetchedAtMostOnce ==
    downloads # <<>> =>
        \A video_id \in Urls :
           /\ downloads.fetches[video_id] <= 1
           /\ Cardinality(Fetching(downloads, video_id)) <= 1

\* the download of the URL of input_config entry c has raised
AcquisitionFailed(c) ==
    \E k \in DOMAIN downloads.urls :
       /\ downloads.urls[k] = downloads.input_config[c]
       /\ IsException(downloads.dl[k].value)

\* C31: a download that failed is not run again and leaves exactly the tasks of its URL
\* without a video file; process_all_tasks dispatches none of those tasks, and every
\* task whose video was acquired it dispatches num_runs times.
AcquisitionFailureIsLocal ==
    [][IF pc = "downloads"
       THEN IF downloads.phase = "downloading"
            THEN /\ \A k \in DOMAIN downloads.dl :
                       downloads.dl[k].at = "returned" => downloads'.dl[k] = downloads.dl[k]
                 /\ downloads'.phase = "done" =>
                       \A c \in Configs :
                          (downloads'.video_path[c] = 0) <=> AcquisitionFailed(c)
            ELSE IF downloads.phase = "done"
            THEN \A t \in Tasks :
                    run'.valid[t] <=> ~(downloads.video_path[TaskConfig(t)] = 0)
            ELSE TRUE
       ELSE IF pc = "run"
       THEN IF run.phase = "prepared"
            THEN \A t \in Tasks :
                    Cardinality({p \in DOMAIN run'.processing_tasks :
                                    run'.processing_tasks[p].task = t})
                        = IF run.valid[t] THEN run.num_runs ELSE 0
            ELSE run'.valid = run.valid /\ run'.processing_tasks = run.processing_tasks
       ELSE TRUE]_vars

\* a task whose download failed is left out while an execution of a task whose video
\* was acquired has ended with a successful result
FailedUrlSkippedOthersRun ==
    /\ pc = "run"
    /\ run.phase = "dispatched"
    /\ \E t \in Tasks : ~run.valid[t]
    /\ \E p \in DOMAIN run.processing_tasks :
          IF IsDict(run.outcomes[p]) THEN run.outcomes[p].success ELSE FALSE

\* the level flags of the scorer that scores `result`
LevelPaths == IF kind = "objective" THEN ObjLevelPaths ELSE SubjLevelPaths

\* the pipeline's scorer for a response of kind k
ScoredAs(k, r) ==
    IF k = "objective" THEN calculate_agent2_scores(r) ELSE calculate_deterministic_scores(r)

\* the scores a scored response holds, none when scoring raised before storing them
FourScores(r) ==
    IF "subjective_scores" \in DOMAIN r \/ "accuracy_score" \in DOMAIN r THEN Scores(r) ELSE <<>>

\* the pipeline's scorer raises on r
ScorerRaises(k, r) == IF k = "objective" THEN Agent2Raises(r) ELSE SubjectiveRaises(r)

\* what the review form computes for the flags of r, or that it raises
HumanMetrics(k, r) ==
    LET flags == FormOf(r, IF k = "objective" THEN ObjFormKeys ELSE SubjFormKeys)
    IN  IF HumanRaises(flags) THEN <<"raises">>
        ELSE IF k = "objective"
        THEN [accuracy |-> calculate_accuracy(flags), logic |-> calculate_logic(flags)]
        ELSE [adaptability |-> calculate_adaptability(flags),
              engagement |-> calculate_engagement(flags)]

\* in this step the pipeline scores the response as it would with `v` reported at path
ScoresAsWith(path, v) ==
    (pc = "response" /\ pc' = "scored") =>
        FourScores(result') = FourScores(ScoredAs(kind, PutPath(result, path, v)))

\* in this step the review form scores the response as it would with `v` reported at path
ReviewsAsWith(path, v) ==
    (pc = "scored" /\ pc' = "reviewed") =>
        metrics' = HumanMetrics(kind, PutPath(result, path, v))

\* C33: a level flag reported as true is charged as level 2 by the objective scorer, by
\* the subjective scorer and by the review form: the scores are those of the same
\* response with level 2 in its place.
TrueIsLevelTwo ==
    [][\A path \in LevelPaths :
          (IF HasPath(result, path) THEN GetPath(result, path) = PyBool(TRUE) ELSE FALSE) =>
              /\ ScoresAsWith(path, PyInt(2))
              /\ ReviewsAsWith(path, PyInt(2))]_vars

\* C34: a negative integer level is charged nothing and makes no scorer raise: the
\* scores are those of the same response with level 0 in its place.
NegativeLevelIsZero ==
    [][\A path \in LevelPaths :
          (IF HasPath(result, path)
           THEN GetPath(result, path).t = "int" /\ GetPath(result, path).n < 0
           ELSE FALSE) =>
              /\ (pc = "response" /\ pc' = "scored") => ~ScorerRaises(kind, result)
              /\ ScoresAsWith(path, PyInt(0))
              /\ ReviewsAsWith(path, PyInt(0))]_vars

\* C35: a level above 3 gives the accuracy, logic, adaptability and engagement of the
\* same response with level 3 in its place.
AboveThreeIsThree ==
    [][\A path \in LevelPaths :
          (IF HasPath(result, path)
           THEN GetPath(result, path).t = "int" /\ GetPath(result, path).n > MaxLevel
           ELSE FALSE) =>
              /\ (pc = "response" /\ pc' = "scored") => ~ScorerRaises(kind, result)
              /\ ScoresAsWith(path, PyInt(MaxLevel))]_vars

\* a scored response whose content brevity is reported above 3 and whose logic score
\* is the 2.0 that the level-3 ceiling would give
BrevityAboveThreeScored ==
    /\ kind = "objective" /\ pc = "scored"
    /\ ReportedAt(result, <<"completeness", "content_brevity_level">>) > MaxLevel
    /\ result["logic_score"] = PyFloat(2000)

\* a delivered score in thousandths: an int counts whole points, a float is kept as it is
ScoreValue(v) == IF v.t = "int" THEN v.n * 1000 ELSE v.n

\* a delivered score is a number between lo and hi, in thousandths
ScoreWithin(v, lo, hi) ==
    /\ v.t \in {"int", "float"}
    /\ lo <= ScoreValue(v) /\ ScoreValue(v) <= hi

\* C32: every unit result delivered with success = true carries accuracy and logic in
\* [1.0, 5.0] and adaptability and engagement in [0.0, 5.0], whatever the stages returned.
SuccessfulScoresInRange ==
    \A e \in DOMAIN units :
        (units[e].stage = "done" /\ IsDict(units[e].outcome)) =>
            (units[e].outcome.success =>
                /\ ScoreWithin(units[e].outcome.scores.accuracy, 1000, 5000)
                /\ ScoreWithin(units[e].outcome.scores.logic, 1000, 5000)
                /\ ScoreWithin(units[e].outcome.scores.adaptability, 0, 5000)
                /\ ScoreWithin(units[e].outcome.scores.engagement, 0, 5000))

\* the deductions of a computed score entry
StepsOf(entry) ==
    IF ~IsDict(entry) THEN {}
    ELSE IF "calculation" \notin DOMAIN entry THEN {}
    ELSE {entry.calculation[i] : i \in DOMAIN entry.calculation}

\* the deductions of the adaptability flags, each at its maximum penalty
MaxAdaptabilitySteps ==
    {Step("Jargon Overload", 1000), Step("Prerequisite Gap", 1000), Step("Pacing Mismatch", 1000),
     Step("Missing Scaffolding", 1000), Step("Visual Accessibility Issue", 1000)}

\* the deductions of the engagement flags, each at its maximum penalty
MaxEngagementSteps ==
    {Step("Monotone Audio", 1500), Step("AI Generated Fatigue", 1000), Step("Visual Clutter", 1000),
     Step("Visual/Audio Disconnect", 1500)}

\* every adaptability flag and every engagement flag of the scored result r was charged
\* its maximum penalty
EveryFlagAtMaximum(r) ==
    /\ "subjective_scores" \in DOMAIN r
    /\ MaxAdaptabilitySteps \subseteq StepsOf(Get(r["subjective_scores"], "adaptability", PyNone))
    /\ MaxEngagementSteps \subseteq StepsOf(Get(r["subjective_scores"], "engagement", PyNone))

\* C37: when the subjective scoring completes without an exception, the zero-score
\* validity check reports invalid only if every adaptability flag (visual accessibility
\* included) and every engagement flag carries its maximum penalty; a flag set with a
\* flag below its maximum penalty is found valid by the check Stage C makes.
InvalidOnlyAtMaximum ==
    [][/\ (kind = "subjective" /\ pc = "response" /\ pc' = "scored" /\ ~SubjectiveRaises(result)) =>
              (~check_agent3_scores_valid(result') => EveryFlagAtMaximum(result'))
       /\ (pc = "scored" /\ pc' = "checked") =>
              metrics' = [valid |-> check_agent3_scores_valid(result)]]_vars

\* a scored response with every flag at its maximum penalty was found invalid
AllMaximumFoundInvalid ==
    /\ kind = "subjective" /\ pc = "checked"
    /\ metrics = [valid |-> FALSE]
    /\ EveryFlagAtMaximum(result)

\* the responses that leave a stage with an error-shaped result: a text that is no
\* JSON, and no parsed value and no text
ErrorShapedResponses == {Unparsable, EmptyText}

\* files.delete returned in this step
DeleteReturned ==
    /\ media.at = "delete"
    /\ media.video_file \in media.remote
    /\ media'.remote = media.remote \ {media.video_file}

\* the value at `path` of a dictionary is 5.0
IsFive(d, path) == IF IsDict(d) THEN (IF HasPath(d, path) THEN GetPath(d, path) = PyFloat(5000) ELSE FALSE) ELSE FALSE

\* C38: an error-shaped result from a parse failure or an empty response is scored as
\* an empty flag set: Stage B returns it with accuracy_score = logic_score = 5.0, and
\* Stage C gives it adaptability = engagement = 5.0 and returns it on that attempt,
\* with no retry.
ErrorShapedScoredAsNoFlags ==
    [][pc = "media" =>
          /\ (media.caller = "agent2" /\ media.at = "generate" /\ media'.response \in ErrorShapedResponses) =>
                 /\ media'.at = "returned"
                 /\ IsFive(media'.value, <<"accuracy_score">>)
                 /\ IsFive(media'.value, <<"logic_score">>)
          /\ (media.caller = "agent3" /\ DeleteReturned /\ media.response \in ErrorShapedResponses) =>
                 /\ media'.at = "returned"
                 /\ media'.attempt = media.attempt
                 /\ IsFive(media'.value, <<"subjective_scores", "adaptability", "score">>)
                 /\ IsFive(media'.value, <<"subjective_scores", "engagement", "score">>)
                 /\ "error" \in DOMAIN media'.value]_vars

\* Stage C returned a response that could not be parsed, scored, on its first attempt
ParseFailureReturnedScored ==
    /\ pc = "media" /\ media.caller = "agent3" /\ media.at = "returned"
    /\ media.response = Unparsable /\ media.attempt = 1
    /\ IsFive(media.value, <<"subjective_scores", "engagement", "score">>)

\* the statuses a job entry may hold
JobStatuses == {"pending", "processing", "completed", "failed"}

\* C39: a job's status only moves pending -> processing -> completed or failed (a
\* background task that fails in its download passes through processing before it
\* yields); a terminal entry never changes, a completed job has a result, a failed job
\* has an error, and no other status is ever stored.
JobStatusMoves ==
    [][\A e \in Execs :
          LET was == StatusOf(jobs[e])
              now == StatusOf(jobs'[e])
          IN  /\ now \in JobStatuses \cup {"none"}
              /\ was # now =>
                     \/ was = "none" /\ now = "pending"
                     \/ was = "pending" /\ now = "processing"
                     \/ was = "pending" /\ now = "failed" /\ "start_time" \in DOMAIN jobs'[e]
                     \/ was = "processing" /\ now \in {"completed", "failed"}
              /\ was \in {"completed", "failed"} => jobs'[e] = jobs[e]
              /\ now = "completed" => "result" \in DOMAIN jobs'[e]
              /\ now = "failed" => "error" \in DOMAIN jobs'[e]]_vars

\* one job was completed with its result and another one failed with its error
CompletedAndFailedJobs ==
    /\ mode = "server"
    /\ \E e, f \in Execs :
          /\ StatusOf(jobs[e]) = "completed" /\ "result" \in DOMAIN jobs[e]
          /\ StatusOf(jobs[f]) = "failed" /\ "error" \in DOMAIN jobs[f]
          /\ units[f].stage = "done"

\* C40: the number of jobs with status "processing" (active_jobs of /status) never
\* exceeds max_concurrent_allowed.
ActiveJobsWithinLimit ==
    Cardinality({e \in Execs : StatusOf(jobs[e]) = "processing"}) <= MaxConcurrent

\* the response without the scores the model reported of its own
WithoutRawScores(k, r) ==
    IF k = "objective" THEN Del(Del(r, "accuracy_score"), "logic_score")
    ELSE Del(r, "subjective_scores")

\* C36: when the scoring of Stage B (of Stage C) completes without an exception, the
\* scores it delivers are those of the same flags without the accuracy_score and
\* logic_score (the subjective_scores) the model reported: two responses that differ
\* in these only are given the same scores.
RawScoresIgnored ==
    [][(pc = "response" /\ pc' = "scored" /\ WithoutRawScores(kind, result) # result) =>
          (~ScorerRaises(kind, result) =>
              FourScores(result') = FourScores(ScoredAs(kind, WithoutRawScores(kind, result))))]_vars

\* a response that reported a score of its own and no flag was scored 5.0 and 5.0
RawScoreReplaced ==
    /\ kind = "objective" /\ pc = "scored" /\ edits = 1
    /\ DOMAIN result = {"accuracy_score", "logic_score", "score_breakdown"}
    /\ result["accuracy_score"] = PyFloat(5000)
    /\ result["logic_score"] = PyFloat(5000)
====
